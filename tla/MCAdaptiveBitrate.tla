-------------------------- MODULE MCAdaptiveBitrate --------------------------
EXTENDS AdaptiveBitrate

\* One sample per way of being degraded, healthy or in between, on both sides
\* of the thresholds.
Sample(rtt, loss, jitter, queue, fps) ==
  [rtt |-> rtt, loss |-> loss, jitter |-> jitter, queue |-> queue, fps |-> fps]

LinkSamples ==
  {Sample(20, 20, 1, 0, 100), Sample(150, 0, 1, 0, 100), Sample(20, 0, 15, 0, 100),
   Sample(20, 0, 1, 4, 100), Sample(20, 0, 1, 0, 80),
   Sample(149, 3, 5, 0, 95), Sample(20, 0, 1, 0, 0),
   Sample(20, 4, 1, 0, 100), Sample(20, 0, 6, 0, 100), Sample(20, 0, 1, 2, 100),
   Sample(20, 0, 1, 0, 94)}

\* Below, at and above the range.
SomeRates == {1000, 2000, 3000, 5000}
=============================================================================
