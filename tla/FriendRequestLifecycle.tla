----------------------- MODULE FriendRequestLifecycle -----------------------
(***************************************************************************)
(* What the friend-request table promises, one atomic step per change of a *)
(* row, with no handler in sight.  A row is created PENDING for an ordered *)
(* pair of users that has no live row, its two users never change, it is   *)
(* never PENDING again once decided, and a deleted row never comes back.   *)
(*                                                                         *)
(* Two tables of moves are given.  SequentialMoves is what the guards of   *)
(* the service allow when one request is served at a time.  RacyMoves adds *)
(* the three moves that two overlapping handlers can make, because every   *)
(* guard reads the row in one database call and writes it in another.      *)
(***************************************************************************)
CONSTANTS Users, RequestIds, NoUser

VARIABLE request

Decided == {"ACCEPTED", "REJECTED", "CANCELED"}

Unissued == [status |-> "UNUSED", sender |-> NoUser, receiver |-> NoUser]

Live(id) == request[id].status \in {"PENDING"} \cup Decided

SequentialMoves ==
  ({"PENDING"} \X Decided)
    \cup {<<"ACCEPTED", "REJECTED">>, <<"REJECTED", "ACCEPTED">>,
          <<"REJECTED", "CANCELED">>, <<"CANCELED", "ACCEPTED">>,
          <<"CANCELED", "REJECTED">>, <<"ACCEPTED", "DELETED">>}

RacyMoves ==
  SequentialMoves \cup {<<"ACCEPTED", "CANCELED">>,
                        <<"REJECTED", "DELETED">>, <<"CANCELED", "DELETED">>}

Issue(id) ==
  /\ request[id] = Unissued
  /\ \E s, r \in Users :
       /\ s # r
       /\ ~ \E other \in RequestIds : /\ Live(other)
                                      /\ request[other].sender = s
                                      /\ request[other].receiver = r
       /\ request' = [request EXCEPT ![id] =
            [status |-> "PENDING", sender |-> s, receiver |-> r]]

Move(id, moves) ==
  \E new \in Decided \cup {"DELETED"} :
    /\ <<request[id].status, new>> \in moves
    /\ request' = [request EXCEPT ![id].status = new]

Init == request = [id \in RequestIds |-> Unissued]

SequentialNext == \E id \in RequestIds : Issue(id) \/ Move(id, SequentialMoves)

RacyNext == \E id \in RequestIds : Issue(id) \/ Move(id, RacyMoves)

SequentialSpec == Init /\ [][SequentialNext]_request

RacySpec == Init /\ [][RacyNext]_request
=============================================================================
