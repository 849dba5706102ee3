--------------------------------- MODULE Club ---------------------------------
(***************************************************************************)
(* The membership of one club and of its messaging channel: creation,      *)
(* joining by code or invite, leaving, removal, roles, deletion.           *)
(*                                                                         *)
(* Who is in the club and who is in its channel are two tables, written    *)
(* one after the other in statements that commit on their own, and only    *)
(* club_members has a foreign key to the club.  A request carries on with  *)
(* what it read when another one has changed it.                           *)
(***************************************************************************)
EXTENDS Integers, FiniteSets

CONSTANTS
  Users,        \* users
  NoOne,        \* nobody
  Invites,      \* invites of the club
  NoInvite,     \* no invite
  Requests,     \* requests in flight
  MaxRequests,  \* bound: requests
  MaxFailures   \* bound: failed statements, deaths of the process

ASSUME ClubAssumption ==
  /\ NoOne \notin Users
  /\ NoInvite \notin Invites
  /\ {MaxRequests, MaxFailures} \subseteq Nat

VARIABLES
  club,      \* the row of prediction.clubs
  roles,     \* role of each user in club_members, "none" without a row
  channel,   \* the row of messaging.channels
  roll,      \* users in messaging.channel_members
  invites,   \* status of each row of club_invites, "none" before, "deleted" after it
  request,   \* what each request is doing
  crossed,   \* history: users whose two rows two requests, or a failure, split,
             \* and users who signed up with the code
  undone,    \* history: whether something came between two steps of a deletion
  admitted,  \* history: members that came by each invite
  shared,    \* history: invites two requests had read as pending
  requests,  \* requests so far
  failures   \* failures so far

tables == <<club, roles, channel, roll, invites>>
history == <<crossed, undone, admitted, shared>>
clubVars == <<tables, request, history, requests, failures>>

-----------------------------------------------------------------------------
(* Data *)

Roles == {"owner", "admin", "member"}

Members == {u \in Users : roles[u] # "none"}
Invited == {i \in Invites : invites[i] \in {"pending", "accepted"}}

(* The user it is about, and the invite, if any. *)
NoRequest == [op |-> "idle", pc |-> "idle", user |-> NoOne, invite |-> NoInvite]

Set(r, state) == request' = [request EXCEPT ![r] = state]
Go(r, pc) == Set(r, [request[r] EXCEPT !.pc = pc])
End(r) == Set(r, NoRequest)

At(r, op, pc) == request[r].op = op /\ request[r].pc = pc

Start(r, op, pc, user, invite) ==
  /\ request[r] = NoRequest
  /\ requests < MaxRequests
  /\ requests' = requests + 1
  /\ Set(r, [op |-> op, pc |-> pc, user |-> user, invite |-> invite])

(* A deletion has begun to delete and not tried the club itself. *)
BeingDeleted == \E s \in Requests : request[s].op = "delete"
                                    /\ request[s].pc \in {"members", "club"}

Quiet == \A r \in Requests : request[r] = NoRequest

ClubInit ==
  /\ club = "none"
  /\ roles = [u \in Users |-> "none"]
  /\ channel = "none"
  /\ roll = {}
  /\ invites = [i \in Invites |-> "none"]
  /\ request = [r \in Requests |-> NoRequest]
  /\ crossed = {}
  /\ undone = FALSE
  /\ admitted = [i \in Invites |-> {}]
  /\ shared = {}
  /\ requests = 0
  /\ failures = 0

-----------------------------------------------------------------------------
(* createClub: the channel, the club, its owner, the owner in the channel *)

CreateChannel(r, user) ==
  /\ club = "none"
  /\ channel = "none"
  /\ Start(r, "create", "club", user, NoInvite)
  /\ channel' = "open"
  /\ UNCHANGED <<club, roles, roll, invites, history, failures>>

InsertClub(r) ==
  /\ At(r, "create", "club")
  /\ club' = "open"
  /\ Go(r, "owner")
  /\ UNCHANGED <<roles, channel, roll, invites, history, requests, failures>>

InsertOwner(r) ==
  /\ At(r, "create", "owner")
  /\ roles' = [roles EXCEPT ![request[r].user] =
                 IF club = "open" /\ @ = "none" THEN "owner" ELSE @]
  /\ Go(r, "channel")
  /\ UNCHANGED <<club, channel, roll, invites, history, requests, failures>>

-----------------------------------------------------------------------------
(* Joining, by code or by invite *)

(* The club has a code, and nobody but its creator knows one before the
   creation is answered.                                                   *)
StartJoin(r, user) ==
  /\ club = "open"
  /\ \A s \in Requests : request[s].op # "create"
  /\ Start(r, "join", "insert", user, NoInvite)
  /\ UNCHANGED <<tables, history, failures>>

(* An account made with the code of the club: its user is new. *)
StartSignup(r, user) ==
  /\ club = "open"
  /\ \A s \in Requests : request[s].op # "create" /\ request[s].user # user
  /\ roles[user] = "none" /\ user \notin roll
  /\ Start(r, "signup", "insert", user, NoInvite)
  /\ UNCHANGED <<tables, history, failures>>

(* The user is not added to the channel; the error is not looked at. *)
SignupInsertMember(r) ==
  LET p == request[r]
      joins == club = "open" /\ roles[p.user] = "none"
  IN /\ At(r, "signup", "insert")
     /\ roles' = [roles EXCEPT ![p.user] = IF joins THEN "member" ELSE @]
     /\ crossed' = IF joins THEN crossed \cup {p.user} ELSE crossed
     /\ undone' = (undone \/ (joins /\ BeingDeleted))
     /\ End(r)
     /\ UNCHANGED <<club, channel, roll, invites, admitted, shared, requests, failures>>

(* An admin or the owner. *)
MayAdmit(user) == roles[user] \in {"owner", "admin"}

StartInvite(r, by, invite) ==
  /\ MayAdmit(by)
  /\ invites[invite] = "none"
  /\ \A s \in Requests : request[s].invite # invite
  /\ Start(r, "invite", "insert", NoOne, invite)
  /\ UNCHANGED <<tables, history, failures>>

InsertInvite(r) ==
  LET p == request[r]
  IN /\ At(r, "invite", "insert")
     /\ invites' = [invites EXCEPT ![p.invite] = IF club = "open" THEN "pending" ELSE @]
     /\ undone' = (undone \/ BeingDeleted)
     /\ End(r)
     /\ UNCHANGED <<club, roles, channel, roll, crossed, admitted, shared, requests,
                    failures>>

(* Mutant: a used invite is found too. *)
ReadAnyInvite(r, user, invite) ==
  /\ invite \in Invited
  /\ Start(r, "accept", "mark", user, invite)
  /\ UNCHANGED <<tables, history, failures>>

ReadInvite(r, user, invite) ==
  /\ invites[invite] = "pending"
  /\ Start(r, "accept", "mark", user, invite)
  /\ shared' = IF \E s \in Requests : request[s].invite = invite /\ At(s, "accept", "mark")
               THEN shared \cup {invite} ELSE shared
  /\ UNCHANGED <<tables, crossed, undone, admitted, failures>>

(* By id; the error is not looked at. *)
MarkAccepted(r) ==
  LET i == request[r].invite
  IN /\ At(r, "accept", "mark")
     /\ invites' = [invites EXCEPT ![i] = IF i \in Invited THEN "accepted" ELSE @]
     /\ Go(r, "insert")
     /\ UNCHANGED <<club, roles, channel, roll, history, requests, failures>>

(* Another request has written the user's row in the club and has still to
   write the one in the channel.                                           *)
Halfway(r, user) ==
  \E s \in Requests \ {r} :
    request[s].user = user /\ request[s].pc \in {"channel", "unchannel"}

(* Unique for the club and the user, and nothing without the club. *)
InsertMember(r) ==
  LET p == request[r]
  IN /\ p.op \in {"join", "accept"} /\ p.pc = "insert"
     /\ IF club = "open" /\ roles[p.user] = "none"
        THEN /\ roles' = [roles EXCEPT ![p.user] = "member"]
             /\ crossed' = IF Halfway(r, p.user) THEN crossed \cup {p.user} ELSE crossed
             /\ undone' = (undone \/ BeingDeleted)
             /\ admitted' = IF p.invite = NoInvite THEN admitted
                            ELSE [admitted EXCEPT ![p.invite] = @ \cup {p.user}]
             /\ Go(r, "channel")
        ELSE End(r) /\ UNCHANGED <<roles, crossed, undone, admitted>>
     /\ UNCHANGED <<club, channel, roll, invites, shared, requests, failures>>

(* Accepting looks the channel up in the club first, and finds none when the
   club is gone.                                                           *)
AddChannelMember(r) ==
  LET p == request[r]
  IN /\ p.op \in {"create", "join", "accept"} /\ p.pc = "channel"
     /\ roll' = IF p.op = "accept" /\ club # "open" THEN roll ELSE roll \cup {p.user}
     /\ End(r)
     /\ UNCHANGED <<club, roles, channel, invites, history, requests, failures>>

-----------------------------------------------------------------------------
(* Leaving, removal, roles *)

StartLeave(r, user) ==
  /\ roles[user] \in {"admin", "member"}
  /\ Start(r, "leave", "delete", user, NoInvite)
  /\ UNCHANGED <<tables, history, failures>>

(* The caller's role is read, then the target's. *)
StartRemove(r, by, user) ==
  /\ MayAdmit(by)
  /\ Start(r, "remove", "target", user, NoInvite)
  /\ UNCHANGED <<tables, history, failures>>

ReadTarget(r) ==
  LET p == request[r]
      found == roles[p.user] \in {"admin", "member"}
  IN /\ p.op \in {"remove", "demote"} /\ p.pc = "target"
     /\ IF ~found THEN End(r)
        ELSE Go(r, IF p.op = "remove" THEN "delete" ELSE "update")
     /\ UNCHANGED <<tables, history, requests, failures>>

DeleteMember(r) ==
  LET p == request[r]
  IN /\ p.op \in {"leave", "remove"} /\ p.pc = "delete"
     /\ roles' = [roles EXCEPT ![p.user] = "none"]
     /\ crossed' = IF Halfway(r, p.user) THEN crossed \cup {p.user} ELSE crossed
     /\ Go(r, "unchannel")
     /\ UNCHANGED <<club, channel, roll, invites, undone, admitted, shared, requests,
                    failures>>

(* Mutant: nobody leaves the channel. *)
KeepChannelMember(r) ==
  /\ request[r].op \in {"leave", "remove"} /\ request[r].pc = "unchannel"
  /\ End(r)
  /\ UNCHANGED <<tables, history, requests, failures>>

(* The channel is looked up in the club again. *)
DeleteChannelMember(r) ==
  LET p == request[r]
  IN /\ p.op \in {"leave", "remove"} /\ p.pc = "unchannel"
     /\ roll' = IF club = "open" THEN roll \ {p.user} ELSE roll
     /\ End(r)
     /\ UNCHANGED <<club, roles, channel, invites, history, requests, failures>>

StartRole(r, by, user, op) ==
  /\ roles[by] = "owner"
  /\ Start(r, op, IF op = "promote" THEN "update" ELSE "target", user, NoInvite)
  /\ UNCHANGED <<tables, history, failures>>

(* Mutant: anyone is promoted, the owner too. *)
PromoteAnyone(r) ==
  LET p == request[r]
  IN /\ At(r, "promote", "update")
     /\ roles' = [roles EXCEPT ![p.user] = IF @ = "none" THEN @ ELSE "admin"]
     /\ End(r)
     /\ UNCHANGED <<club, channel, roll, invites, history, requests, failures>>

Promote(r) ==
  LET p == request[r]
  IN /\ At(r, "promote", "update")
     /\ roles' = [roles EXCEPT ![p.user] = IF @ = "member" THEN "admin" ELSE @]
     /\ End(r)
     /\ UNCHANGED <<club, channel, roll, invites, history, requests, failures>>

Demote(r) ==
  LET p == request[r]
  IN /\ At(r, "demote", "update")
     /\ roles' = [roles EXCEPT ![p.user] = IF @ = "none" THEN @ ELSE "member"]
     /\ End(r)
     /\ UNCHANGED <<club, channel, roll, invites, history, requests, failures>>

-----------------------------------------------------------------------------
(* deleteClub: what belongs to it, the invites, the members, the club, and
   the channel is archived.  No error is looked at.                        *)

StartDelete(r, by) ==
  /\ roles[by] = "owner"
  /\ Start(r, "delete", "invites", NoOne, NoInvite)
  /\ UNCHANGED <<tables, history, failures>>

DeleteInvites(r) ==
  /\ At(r, "delete", "invites")
  /\ invites' = [i \in Invites |-> IF i \in Invited THEN "deleted" ELSE invites[i]]
  /\ Go(r, "members")
  /\ UNCHANGED <<club, roles, channel, roll, history, requests, failures>>

DeleteMembers(r) ==
  /\ At(r, "delete", "members")
  /\ roles' = [u \in Users |-> "none"]
  /\ Go(r, "club")
  /\ UNCHANGED <<club, channel, roll, invites, history, requests, failures>>

(* Mutant: members and invites do not keep the club. *)
DeleteClubAnyway(r) ==
  /\ At(r, "delete", "club")
  /\ club' = "deleted"
  /\ Go(r, "archive")
  /\ UNCHANGED <<roles, channel, roll, invites, history, requests, failures>>

(* Refused as long as there are rows that refer to the club. *)
DeleteClub(r) ==
  /\ At(r, "delete", "club")
  /\ club' = IF Members = {} /\ Invited = {} THEN "deleted" ELSE club
  /\ Go(r, "archive")
  /\ UNCHANGED <<roles, channel, roll, invites, history, requests, failures>>

Archive(r) ==
  /\ At(r, "delete", "archive")
  /\ channel' = "archived"
  /\ End(r)
  /\ UNCHANGED <<club, roles, roll, invites, history, requests, failures>>

-----------------------------------------------------------------------------
(* Failures *)

Failure ==
  /\ failures < MaxFailures
  /\ failures' = failures + 1

(* An INSERT or SELECT that fails ends the request; an UPDATE or DELETE that
   fails, and the INSERT of the owner, are taken for done.                 *)
StatementFails(r) ==
  LET p == request[r]
      next == CASE p.op = "create" /\ p.pc = "owner" -> "channel"
                [] p.op = "accept" /\ p.pc = "mark" -> "insert"
                [] p.pc = "delete" -> "unchannel"
                [] p.op = "delete" /\ p.pc = "invites" -> "members"
                [] p.op = "delete" /\ p.pc = "members" -> "club"
                [] p.op = "delete" /\ p.pc = "club" -> "archive"
                [] OTHER -> "idle"
  IN /\ Failure
     /\ p # NoRequest
     /\ IF next = "idle" THEN End(r) ELSE Go(r, next)
     /\ crossed' = IF p.pc \in {"channel", "unchannel", "delete"}
                   THEN crossed \cup {p.user} ELSE crossed
     /\ undone' = (undone \/ p.op \in {"create", "delete"})
     /\ shared' = IF p.op = "accept" /\ p.pc = "mark" THEN shared \cup {p.invite} ELSE shared
     /\ UNCHANGED <<tables, admitted, requests>>

(* The API process dies. *)
ClubCrash ==
  /\ Failure
  /\ ~Quiet
  /\ request' = [r \in Requests |-> NoRequest]
  /\ crossed' = crossed \cup {request[r].user : r \in
                  {s \in Requests : request[s].pc \in {"channel", "unchannel"}}}
  /\ undone' = (undone \/ \E r \in Requests : request[r].op \in {"create", "delete"})
  /\ UNCHANGED <<tables, admitted, shared, requests>>

Starts(r) ==
  \/ \E user \in Users : \/ CreateChannel(r, user)
                         \/ StartJoin(r, user)
                         \/ StartSignup(r, user)
                         \/ StartLeave(r, user)
                         \/ StartDelete(r, user)
  \/ \E by \in Users, invite \in Invites : \/ StartInvite(r, by, invite)
                                           \/ ReadInvite(r, by, invite)
  \/ \E by, user \in Users : \/ StartRemove(r, by, user)
                             \/ StartRole(r, by, user, "promote")
                             \/ StartRole(r, by, user, "demote")

Steps(r) ==
  \/ InsertClub(r)
  \/ InsertOwner(r)
  \/ SignupInsertMember(r)
  \/ InsertInvite(r)
  \/ MarkAccepted(r)
  \/ InsertMember(r)
  \/ AddChannelMember(r)
  \/ ReadTarget(r)
  \/ DeleteMember(r)
  \/ DeleteChannelMember(r)
  \/ Promote(r)
  \/ Demote(r)
  \/ DeleteInvites(r)
  \/ DeleteMembers(r)
  \/ DeleteClub(r)
  \/ Archive(r)

ClubNext ==
  \/ \E r \in Requests : Starts(r) \/ Steps(r) \/ StatementFails(r)
  \/ ClubCrash

ClubSpec == ClubInit /\ [][ClubNext]_clubVars

-----------------------------------------------------------------------------
(* Properties *)

(* Rows are rows the schema accepts: a member or an invite has a club. *)
ClubTypeOK ==
  /\ club \in {"none", "open", "deleted"}
  /\ roles \in [Users -> Roles \cup {"none"}]
  /\ channel \in {"none", "open", "archived"}
  /\ roll \subseteq Users
  /\ invites \in [Invites -> {"none", "pending", "accepted", "deleted"}]
  /\ club # "open" => Members = {} /\ Invited = {}
  /\ crossed \subseteq Users
  /\ undone \in BOOLEAN

(* The channel's members are the club's, however joining, leaving and removal
   overlap: they part only over a user whom two requests, or a failure, were
   in the middle of admitting or dismissing, over one who signed up with the
   code, whom nobody adds to the channel, or over a deletion.              *)
ChannelFollowsMembership ==
  Quiet /\ club = "open" /\ ~undone =>
    \A u \in Users \ crossed : u \in roll <=> u \in Members

(* A club has one owner and an open channel, a deleted one an archived
   channel: nothing but a deletion takes the owner away, and one that nobody
   came between, and that did not fail, is whole.                          *)
ClubIsWhole ==
  Quiet /\ ~undone =>
    /\ club = "open" => /\ Cardinality({u \in Users : roles[u] = "owner"}) = 1
                        /\ channel = "open"
    /\ club = "deleted" => channel = "archived"

(* An invite makes one member, unless two requests had both read it as
   pending or its UPDATE failed.                                           *)
InviteAdmitsOne ==
  \A i \in Invites \ shared : Cardinality(admitted[i]) <= 1

=============================================================================
