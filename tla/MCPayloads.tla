----------------------------- MODULE MCPayloads -----------------------------
(***************************************************************************)
(* The model of the payloads: the conversions of every class, and the      *)
(* documents that several parties sign.  The two do not interact, so a     *)
(* behaviour is about one of them and the other one rests.                 *)
(***************************************************************************)
EXTENDS Proposals, PayloadForms

AllClasses == (PlainClasses \cup ProposalTypes) \X (0..2)

MCInit ==
  \/ Init /\ class = <<"PayloadDefault", 0>> /\ form = "rests" /\ content = <<>>
  \/ Init /\ flow = "unstake" /\ FormInit

MCNext ==
  \/ form = "rests" /\ Next /\ UNCHANGED formVars
  \/ form # "rests" /\ FormNext /\ UNCHANGED vars

MCSpec == MCInit /\ [][MCNext]_<<vars, formVars>>
=============================================================================
