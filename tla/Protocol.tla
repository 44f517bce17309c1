------------------------------ MODULE Protocol ------------------------------
(***************************************************************************)
(* The control messages of networking/Protocol.h, reduced to what the      *)
(* session state machines look at.  Names, texts, resolutions, time stamps *)
(* and RTT samples are left out; a session code is right or wrong; the     *)
(* four input permission flags are one of the three values the code ever   *)
(* stores.  Every message of the application range (KEY_EXCHANGE ... from  *)
(* 0x0010 on) is opaque here, as it is for the two sessions.               *)
(***************************************************************************)
EXTENDS Naturals, Sequences

CONSTANT PreferredCodec      \* HostSessionParams::preferredCodec

Codecs == {"H264", "HEVC", "AV1"}

ASSUME PreferredCodecAssumption == PreferredCodec \in Codecs

Reasons == {"BadSessionCode", "RejectedByHost", "ProtocolError",
            "InactivityTimeout", "ServerFull", "NoCommonCodec"}

\* "builtin" is a default-constructed InputPermissions, "defaults" is
\* HostSessionParams::inputDefaults, "none" is all four flags off.
Permissions == {"builtin", "defaults", "none"}

ClientHello(codeIsRight) == [type |-> "ClientHello", code |-> codeIsRight]
ClientCapabilities(codecs) == [type |-> "ClientCapabilities", codecs |-> codecs]
HostApproved == [type |-> "HostApproved"]
HostCapabilities == [type |-> "HostCapabilities"]
NegotiationResult(ok) == [type |-> "NegotiationResult", accepted |-> ok]
HostReject(reason) == [type |-> "HostReject", reason |-> reason]
InputPermission(p) == [type |-> "InputPermission", perm |-> p]
Kick == [type |-> "Kick"]
Bye == [type |-> "Bye"]
Ping == [type |-> "Ping"]
Pong == [type |-> "Pong"]
AppMessage == [type |-> "App"]

\* SESSION_KEY_READY as both coordinators build it: the body of the Envelope is
\* never set, so encodeMessage() writes the body of an empty CLIENT_HELLO.
KeyReady == [type |-> "KeyReady"]

ClientMessages ==
  [type : {"ClientHello"}, code : BOOLEAN]
    \cup [type : {"ClientCapabilities"}, codecs : SUBSET Codecs]
    \cup [type : {"Bye", "Ping", "Pong", "App", "KeyReady"}]

HostMessages ==
  [type : {"HostApproved", "HostCapabilities", "Kick", "Ping", "Pong", "App", "KeyReady"}]
    \cup [type : {"NegotiationResult"}, accepted : BOOLEAN]
    \cup [type : {"HostReject"}, reason : Reasons]
    \cup [type : {"InputPermission"}, perm : Permissions]

\* decodeMessage() accepts the frame: of the messages the two programs send it
\* refuses the one that carries the body of another.
Decodable(m) == m.type # "KeyReady"

\* proto::negotiateCodec succeeds on the list {preferredCodec, H264} the host
\* always passes.
HasCommonCodec(supported) == {PreferredCodec, "H264"} \cap supported # {}
=============================================================================
