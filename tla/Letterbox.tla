------------------------------- MODULE Letterbox -------------------------------
(***************************************************************************)
(* The first half of VideoEncoder::encode: the captured picture is fitted  *)
(* into the encoder's picture, with black bars around it.  The size of the *)
(* source changes from frame to frame (the captured window is resized).    *)
(* The scaler and its buffer are kept between frames and rebuilt only when *)
(* the fitted size changes.                                                *)
(***************************************************************************)
EXTENDS Integers

CONSTANTS Widths, Heights,             \* sizes the captured window can have
          TargetW, TargetH             \* the encoder's picture

ASSUME LetterboxAssumption ==
  /\ Widths \subseteq Nat \ {0} /\ Heights \subseteq Nat \ {0}
  /\ TargetW \in Nat \ {0} /\ TargetH \in Nat \ {0}

VARIABLES source,                      \* the last encoded frame's size, 0 before
          scaler,                      \* sws_: the source size it was built for
          lastFit,                     \* lastFitW_, lastFitH_
          bufSize                      \* scaleBufSize_

boxVars == <<source, scaler, lastFit, bufSize>>

Size(w, h) == [w |-> w, h |-> h]
NoSize == Size(0, 0)

Even(n) == 2 * (n \div 2)
Ceil(a, b) == (a + b - 1) \div b
Clip(n, hi) == IF n > hi THEN hi ELSE IF n < 1 THEN 1 ELSE n

Fit(s) ==
  IF s.w * TargetH >= s.h * TargetW
  THEN Size(Even(TargetW), Even(Clip(Ceil(TargetW * s.h, s.w), TargetH)))
  ELSE Size(Even(Clip(Ceil(TargetH * s.w, s.h), TargetW)), Even(TargetH))

Offset(s) == Size(Even((TargetW - Fit(s).w) \div 2), Even((TargetH - Fit(s).h) \div 2))

\* av_image_get_buffer_size for YUV420P with an even width and height.
YuvSize(fit) == fit.w * fit.h + 2 * ((fit.w \div 2) * (fit.h \div 2))

\* sws_getContext refuses an empty picture.
Scalable(fit) == fit.w > 0 /\ fit.h > 0

BoxInit == source = NoSize /\ scaler = NoSize /\ lastFit = NoSize /\ bufSize = 0

Grown(size) == IF bufSize < size THEN size ELSE bufSize

\* Fault: the buffer is allocated once and never grown.
RebuildKeepingBuffer(s, fit) ==
  /\ bufSize' = IF bufSize = 0 THEN YuvSize(fit) ELSE bufSize
  /\ IF Scalable(fit) THEN scaler' = s /\ lastFit' = fit
                      ELSE scaler' = NoSize /\ UNCHANGED lastFit

\* The scaler is freed first; lastFit changes only when the new one exists.
Rebuild(s, fit) ==
  /\ bufSize' = Grown(YuvSize(fit))
  /\ IF Scalable(fit) THEN scaler' = s /\ lastFit' = fit
                      ELSE scaler' = NoSize /\ UNCHANGED lastFit

Encode(s) ==
  LET fit == Fit(s)
  IN  /\ source' = s
      /\ IF scaler = NoSize \/ lastFit # fit
         THEN Rebuild(s, fit)
         ELSE UNCHANGED <<scaler, lastFit, bufSize>>

\* The encoder is opened again (init): close frees scaler and buffer, and
\* lastFit keeps its value.
Reopen ==
  /\ source' = NoSize /\ scaler' = NoSize /\ bufSize' = 0
  /\ UNCHANGED lastFit

BoxNext ==
  \/ \E w \in Widths, h \in Heights : Encode(Size(w, h))
  \/ Reopen

BoxSpec == BoxInit /\ [][BoxNext]_boxVars

-------------------------------------------------------------------------------
BoxTypeOK ==
  /\ source \in [w : Widths \cup {0}, h : Heights \cup {0}]
  /\ scaler \in [w : Widths \cup {0}, h : Heights \cup {0}]
  /\ lastFit \in [w : 0 .. TargetW, h : 0 .. TargetH]
  /\ bufSize \in 0 .. 2 * TargetW * TargetH

\* Every row and column the encode writes into the frame, luma and chroma,
\* is inside the encoder's picture.
BlitStaysInside ==
  LET fit == Fit(source) off == Offset(source)
  IN  /\ off.w + fit.w <= TargetW /\ off.h + fit.h <= TargetH
      /\ off.w \div 2 + fit.w \div 2 <= TargetW \div 2
      /\ off.h \div 2 + fit.h \div 2 <= TargetH \div 2

\* One side fills the target and the other is off the exact proportion by
\* fewer than the two pixels that rounding to even costs.
KeepsAspect ==
  LET fit == Fit(source)
      exactW == source.w * TargetH   \* TargetH * w / h is the exact width
      exactH == source.h * TargetW
  IN  \/ /\ fit.h = Even(TargetH)
         /\ fit.w * source.h < exactW + source.h /\ (fit.w + 2) * source.h > exactW
      \/ /\ fit.w = Even(TargetW)
         /\ fit.h * source.w < exactH + source.w /\ (fit.h + 2) * source.w > exactH

\* Whatever sizes the earlier frames had, VideoEncoder::encode writes inside
\* the encoder's picture, keeps the proportions of the source, and the
\* intermediate buffer holds what the scaler writes to it.
PictureFits ==
  source # NoSize =>
    /\ BlitStaysInside /\ KeepsAspect
    /\ scaler # NoSize => bufSize >= YuvSize(Fit(source))

-------------------------------------------------------------------------------
(* Statements of comments, tests and documents that the code does not keep *)

\* The size passed with a frame describes it: the scaler that reads the
\* frame was built for a source of that size.
ScalerMatchesSource == source # NoSize /\ scaler # NoSize => scaler = source
===============================================================================
