---------------------------- MODULE InputInjector ----------------------------
(***************************************************************************)
(* The host's input injector with its virtual gamepads: permissions pushed *)
(* by the coordinator, input datagrams applied on the UDP io threads, the  *)
(* release of held keys, and rumble on its way back.  Every operation runs *)
(* under the injector's mutex_.  keysDown is the state of the host's       *)
(* keyboard and mouse buttons as the game sees it; two players share it.   *)
(* A key stands for its virtual-key code with the extended flag that the   *)
(* client sends with it, the same in its press and its release.            *)
(***************************************************************************)
EXTENDS Integers, FiniteSets

CONSTANTS PlayerIndexes,                     \* player indexes
          Keys, Buttons,               \* virtual keys, mouse buttons
          ExtendedKeys,                \* isExtendedKey: arrows, Alt, Insert, ...
          PermissionSets,              \* permissions the host gives
          MaxPads,                     \* virtual pads ViGEm takes
          InputFails,                  \* SendInput may fail (the secure desktop is shown)
          PadFails                     \* ViGEm may refuse a pad, or not be installed

Permissions == [controller : BOOLEAN, keyboard : BOOLEAN, mouse : BOOLEAN, vibration : BOOLEAN]

ASSUME InjectorAssumption ==
  /\ PermissionSets \subseteq Permissions
  /\ MaxPads \in Nat /\ InputFails \in BOOLEAN /\ PadFails \in BOOLEAN
  /\ IsFiniteSet(PlayerIndexes)
  /\ Keys \cap Buttons = {} /\ ExtendedKeys \subseteq Keys

VARIABLES clients_,                     \* clients_: records of the known players
          pads,                        \* pads_ of the VirtualGamepad: players with a pad
          keysDown,                        \* keys and buttons that are down on the host
          rumbleSender                 \* rumbleSender_: the player it was set for

injVars == <<clients_, pads, keysDown, rumbleSender>>

NoPlayer == 0
ClientRecord == [perms : Permissions, held : SUBSET (Keys \cup Buttons)]

InjectorTypeOK ==
  /\ DOMAIN clients_ \subseteq PlayerIndexes /\ \A p \in DOMAIN clients_ : clients_[p] \in ClientRecord
  /\ pads \subseteq PlayerIndexes /\ Cardinality(pads) <= MaxPads
  /\ keysDown \subseteq Keys \cup Buttons
  /\ rumbleSender \in PlayerIndexes \cup {NoPlayer}

InjInit ==
  /\ clients_ = [p \in {} |-> 0] /\ pads = {} /\ keysDown = {}
  /\ rumbleSender = NoPlayer

-------------------------------------------------------------------------------
\* A player seen for the first time has its controller permitted already.
NewClient ==
  [perms |-> [controller |-> TRUE, keyboard |-> FALSE, mouse |-> FALSE, vibration |-> TRUE],
   held |-> {}]

Known(p) == IF p \in DOMAIN clients_ THEN clients_[p] ELSE NewClient

With(p, c) == [q \in DOMAIN clients_ \cup {p} |-> IF q = p THEN c ELSE clients_[q]]
Without(p) == [q \in DOMAIN clients_ \ {p} |-> clients_[q]]

\* addPlayer: nothing when the player has a pad, refused at the limit.  The
\* sets of pads it can leave.
AddPlayer(p) ==
  IF p \in pads \/ Cardinality(pads) >= MaxPads THEN {pads}
  ELSE IF PadFails THEN {pads, pads \cup {p}} ELSE {pads \cup {p}}

PadsAfter(p, was, now) ==
  CASE now /\ ~was -> AddPlayer(p)
    [] was /\ ~now -> {pads \ {p}}
    [] OTHER -> {pads}

\* Without the keyboard everything the player holds is released, the mouse
\* buttons too; without the mouse alone nothing is.
HeldAfter(c, perms) == IF perms.keyboard THEN c.held ELSE {}

\* releaseAllKeys keeps no extended flag: it releases every code as a plain
\* key, which leaves the extended key of that code down.  It ignores the
\* result of SendInput.
Release(keys) ==
  \E failed \in IF InputFails THEN SUBSET keys ELSE {{}} :
    keysDown' = keysDown \ ((keys \ ExtendedKeys) \ failed)

\* The coordinator's handling of a permission event: the injector takes the
\* permissions, and the rumble sender is replaced when the player's streamer
\* exists and may use a controller.
SetPermissions(p, perms, streaming) ==
  LET c == Known(p)
      held == HeldAfter(c, perms)
  IN  /\ clients_' = With(p, [perms |-> perms, held |-> held])
      /\ pads' \in PadsAfter(p, c.perms.controller, perms.controller)
      /\ Release(c.held \ held)
      /\ rumbleSender' = IF streaming /\ perms.controller THEN p ELSE rumbleSender

\* applyInput with a controller state: it reaches the pad, if there is one.
ApplyController(p) ==
  /\ clients_' = With(p, Known(p))
  /\ UNCHANGED <<pads, keysDown, rumbleSender>>

\* applyInput with a key or button event.  The record is changed before
\* SendInput is called, whether or not that succeeds.
KeyEvent(p, x, isDown, ok) ==
  LET c == Known(p)
  IN  /\ clients_' = With(p, [c EXCEPT !.held = IF isDown THEN @ \cup {x} ELSE @ \ {x}])
      /\ keysDown' = IF ~ok THEN keysDown ELSE IF isDown THEN keysDown \cup {x} ELSE keysDown \ {x}

Permitted(p, x) == IF x \in Keys THEN Known(p).perms.keyboard ELSE Known(p).perms.mouse

ApplyEvent(p, x, isDown) ==
  /\ \/ Permitted(p, x) /\ \E ok \in {TRUE, ~InputFails} : KeyEvent(p, x, isDown, ok)
     \/ ~Permitted(p, x) /\ clients_' = With(p, Known(p)) /\ UNCHANGED keysDown
  /\ UNCHANGED <<pads, rumbleSender>>

\* Fault: a player who leaves is forgotten with its keys down.
ClientDisconnectedHolding(p) ==
  /\ pads' = pads \ {p}
  /\ clients_' = Without(p)
  /\ UNCHANGED <<keysDown, rumbleSender>>

ClientDisconnected(p) ==
  /\ Release(Known(p).held)
  /\ pads' = pads \ {p}
  /\ clients_' = Without(p)
  /\ UNCHANGED rumbleSender

\* handleVibration: where the rumble of a player's pad goes.
Vibration(p) ==
  IF p \in pads /\ Known(p).perms.vibration /\ p \in DOMAIN clients_ THEN rumbleSender ELSE NoPlayer

\* The destructor: what every player holds is released, every pad removed.
\* The next injector starts from nothing.
Shutdown ==
  /\ Release(UNION {clients_[p].held : p \in DOMAIN clients_})
  /\ pads' = {} /\ clients_' = [p \in {} |-> 0]
  /\ rumbleSender' = NoPlayer

InjNext ==
  \/ Shutdown
  \/ \E p \in PlayerIndexes :
    \/ \E perms \in PermissionSets, streaming \in BOOLEAN : SetPermissions(p, perms, streaming)
    \/ ApplyController(p)
    \/ \E x \in Keys \cup Buttons, isDown \in BOOLEAN : ApplyEvent(p, x, isDown)
    \/ ClientDisconnected(p)

InjSpec == InjInit /\ [][InjNext]_injVars

-------------------------------------------------------------------------------
\* What the game sees of a player ends with the player: a plain key or a
\* button that is down on the host is held by a player the injector still
\* knows (releaseAllKeys in clientDisconnected, setPermissions and shutdown).
\* A key that is held is one its player may still press, and a virtual pad
\* belongs to a known player with the controller permission.  A mouse button
\* may outlive the mouse permission: setPermissions releases buttons only with
\* the keyboard.
InputFollowsPermissions ==
  /\ \A x \in keysDown \ ExtendedKeys : \E p \in DOMAIN clients_ : x \in clients_[p].held
  /\ \A p \in DOMAIN clients_ : clients_[p].held \cap Keys # {} => clients_[p].perms.keyboard
  /\ \A p \in pads : p \in DOMAIN clients_ /\ clients_[p].perms.controller

-------------------------------------------------------------------------------
(* Statements of comments, tests and documents that the code does not keep *)

\* "key release safety when clients vanish": a key or button that is down on
\* the host is held by a player the injector still knows, who will release it
\* or have it released.  An extended key stays down.
HeldBySomebody == \A x \in keysDown : \E p \in DOMAIN clients_ : x \in clients_[p].held

\* "permission enforcement on the LIVE path": a button that is held is one its
\* player may still press and release.
ButtonsFollowMouse ==
  \A p \in DOMAIN clients_ : clients_[p].held \cap Buttons # {} => clients_[p].perms.mouse

\* "per-player Xbox 360 pads": a player with the controller permission has a
\* pad, as long as there are enough of them.
PadFollowsPermission ==
  \A p \in DOMAIN clients_ :
    clients_[p].perms.controller /\ Cardinality(pads) < MaxPads => p \in pads

\* "rumble backchannel to the client's physical pad": a pad's rumble is sent
\* to the player who owns the pad.
RumbleReachesItsPlayer == \A p \in pads : Vibration(p) \in {p, NoPlayer}
===============================================================================
