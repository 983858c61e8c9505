---------------------------- MODULE PayloadForms ----------------------------
(***************************************************************************)
(* The conversions of one payload, or of one part of a transaction, in any *)
(* order: the host supplies JSON, FromJson makes an object of it, operator= *)
(* copies the object, Serialize and Deserialize move it to bytes and back, *)
(* ToJson gives it to the host again.  Every member starts with a value of *)
(* its own, so that a member that is dropped, or is read in the place of   *)
(* another one, shows.                                                     *)
(***************************************************************************)
EXTENDS PayloadClasses

CONSTANT Classes      \* the pairs of a class and a version that are converted

ASSUME ClassesAssumption == Classes \subseteq (PlainClasses \cup ProposalTypes) \X Nat

VARIABLES
  class,              \* the class and the version of the payload
  form,               \* "json", "object", "bytes", or "refused" by Deserialize
  content             \* the JSON value, the members, or the stream

formVars == <<class, form, content>>

F == Functions(class[1], class[2])

Members == F.Copy \cup F.Equal \cup MembersOf(F.Serialize) \cup MembersOf(F.Deserialize)

\* The JSON value the host starts with, and the object it stands for.
Given == [k \in KeysOf(F.FromJson) |-> k]
Original == FromJsonOf(F.FromJson, Given, Members)

Bytes(val) == Written(F.Serialize, val)

EqualTo(a, b) == F.Comparable /\ \A m \in F.Equal : a[m] = b[m]

FormInit == class \in Classes /\ form = "json" /\ content = Given

FromJson ==
  /\ form = "json" /\ KeysOf(F.FromJson) \subseteq DOMAIN content
  /\ form' = "object" /\ content' = FromJsonOf(F.FromJson, content, Members)
  /\ UNCHANGED class

ToJson ==
  /\ form = "object"
  /\ form' = "json" /\ content' = JsonOf(F.ToJson, content)
  /\ UNCHANGED class

Serialize ==
  /\ form = "object"
  /\ form' = "bytes" /\ content' = Bytes(content)
  /\ UNCHANGED class

Deserialize ==
  /\ form = "bytes"
  /\ IF Fits(F.Deserialize, content)
     THEN form' = "object" /\ content' = ReadBack(F.Deserialize, content, Members)
     ELSE form' = "refused" /\ content' = <<>>
  /\ UNCHANGED class

Assign ==
  /\ form = "object"
  /\ content' = [m \in Members |-> IF m \in F.Copy THEN content[m] ELSE Unset]
  /\ UNCHANGED <<class, form>>

FormNext == FromJson \/ ToJson \/ Serialize \/ Deserialize \/ Assign

FormSpec == FormInit /\ [][FormNext]_formVars

-----------------------------------------------------------------------------
\* Whatever a payload goes through between the host's JSON and the bytes that
\* are signed, its bytes are those of the JSON the host supplied, and what
\* Serialize wrote Deserialize reads: the upgrade proposals, which only
\* Deserialize knows, and the unknown versions of RechargeToSideChain are the
\* ones that are refused (Serialize, Deserialize, ToJson, FromJson and
\* operator= of the payload classes).
BytesKept ==
  /\ form = "object"  => Bytes(content) = Bytes(Original)
  /\ form = "refused" => class[1] \in UpgradeTypes \/ (class[1] = "RechargeToSideChain" /\ class[2] > 1)
  /\ form = "json" /\ class[1] \notin UpgradeTypes => KeysOf(F.FromJson) \subseteq DOMAIN content

\* An object is equal to the one it was made from, except where Equal finds
\* nothing equal, not even the object itself: the unknown versions of two
\* classes, and the upgrades.  Two objects that differ in a member that is
\* written are unequal, except for the DID of a CRInfo, which Equal compares
\* above version 1 only (Equal and operator== of the payload classes).
EqualSeesBytes ==
  form = "object" =>
    /\ EqualTo(content, Original) <=>
         ~ \/ class[1] \in {"RechargeToSideChain", "TransferCrossChainAsset"} /\ class[2] > 1
           \/ class[1] \in UpgradeTypes \cup {"UpgradeCodeInfo"}
    /\ \A m \in MembersOf(F.Serialize) :
         m \in F.Equal \/ (class = <<"CRInfo", CRInfoDIDVersion>> /\ m = "did")

\* EstimateSize counts what Serialize writes, in whatever order, except for the
\* payloads named here (EstimateSize of the payload classes).
EstimateCountsBytes ==
  form = "bytes" /\ class[1] \notin UpgradeTypes =>
    LET counted == {F.EstimateSize[i] : i \in DOMAIN F.EstimateSize}
        written == {F.Serialize[i] : i \in DOMAIN F.Serialize}
    IN  (counted = written) <=>
          ~ \/ class[1] \in {"TransferInfo", "CRCProposalRealWithdraw", "DIDInfo", "reserveCustomID",
                             "receiveCustomID", "changeCustomIDFee", "registerSideChain"}
            \/ class[1] = "CandidateVotes" /\ class[2] >= 1
=============================================================================
