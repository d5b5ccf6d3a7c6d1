------------------------------ MODULE UserRows ------------------------------
(***************************************************************************)
(* What a row of the users table is told apart by: its two unique columns; *)
(* its status and isOnline are variables of their own, and every other     *)
(* column changes as the unique ones do.  A cached copy has isOnline too,  *)
(* for getUserPresence; its status is never DELETED.                       *)
(***************************************************************************)
CONSTANTS Emails, Names, NoAccount

Account == [email : Emails, name : Names]

Copy == [row : Account, online : BOOLEAN]

ASSUME AccountAssumption == NoAccount \notin Account /\ NoAccount \notin Copy
=============================================================================
