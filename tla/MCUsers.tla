------------------------------ MODULE MCUsers ------------------------------
(***************************************************************************)
(* What belongs to users, for TLC: the address book of one user, and the   *)
(* accounts and reviews of several.  They share no row and no request, so  *)
(* either of the two moves while the other is as it was at the start:      *)
(* every behaviour of each is one of the behaviours here.                  *)
(***************************************************************************)
EXTENDS AddressBook, Reviews

UsersInit == BookInit /\ Init

UsersNext ==
  \/ Init /\ BookNext /\ UNCHANGED vars
  \/ BookInit /\ Next /\ UNCHANGED bookVars

UsersSpec == UsersInit /\ [][UsersNext]_<<bookVars, vars>> /\ Fairness
=============================================================================
