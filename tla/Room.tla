-------------------------------- MODULE Room --------------------------------
(***************************************************************************)
(* A room (src/room/room.go): a roster with roles, and the gate messages   *)
(* pass.  Every method holds the mutex, so each is one step; a refused     *)
(* call changes nothing and is left out.                                   *)
(***************************************************************************)
EXTENDS Envelope, FiniteSets

CONSTANTS
  Identities,      \* who may be in the room
  Founder,         \* its first moderator
  RoomID,          \* its name
  MaxRoomChanges   \* bound: changes of the roster

ASSUME RoomAssumption == Founder \in Identities /\ MaxRoomChanges \in Nat

VARIABLES
  roster,       \* the role of each identity, or "none"
  roomChanges   \* changes so far

roomVars == <<roster, roomChanges>>

IsMember(id) == roster[id] # "none"

Moderators == {id \in Identities : roster[id] = "moderator"}

RoomInit ==
  /\ roster = [id \in Identities |-> IF id = Founder THEN "moderator" ELSE "none"]
  /\ roomChanges = 0

SetRole(id, role) ==
  /\ roomChanges < MaxRoomChanges
  /\ roomChanges' = roomChanges + 1
  /\ roster' = [roster EXCEPT ![id] = role]

AdmitMember(id, by) == by \in Moderators /\ ~IsMember(id) /\ SetRole(id, "member")

\* The last moderator stays.
MayGo(id) == IsMember(id) /\ Moderators # {id}

RemoveMember(id, by) == by \in Moderators /\ MayGo(id) /\ SetRole(id, "none")

Leave(id) == MayGo(id) /\ SetRole(id, "none")

Promote(id, by) == by \in Moderators /\ IsMember(id) /\ SetRole(id, "moderator")

\* The commands of a room tool, and a member that leaves.
RoomStep ==
  \E id, by \in Identities :
    AdmitMember(id, by) \/ RemoveMember(id, by) \/ Leave(id) \/ Promote(id, by)

\* The message names this room, verifies, and comes from a member and goes
\* to members only.
Accepts(m) ==
  /\ m.room = RoomID
  /\ ValidateMessage(m) /\ VerifySignature(m)
  /\ IsMember(m.signer)
  /\ \A i \in DOMAIN m.to : IsMember(m.to[i])

-----------------------------------------------------------------------------

=============================================================================
