------------------------------- MODULE Parts -------------------------------
(***************************************************************************)
(* Components that share no state are specified side by side: part names   *)
(* the component that moves and its configuration, and the others stay as  *)
(* they began.                                                             *)
(***************************************************************************)
CONSTANT Parts
VARIABLE part

\* Of configurations confs the one part names or, of a component that rests, any one.
Named(confs) == IF part \in DOMAIN confs THEN part ELSE CHOOSE p \in DOMAIN confs : TRUE
=============================================================================
