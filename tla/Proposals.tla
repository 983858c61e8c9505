----------------------------- MODULE Proposals -----------------------------
(***************************************************************************)
(* How a payload that several parties sign comes to be in a transaction of *)
(* MainchainSubWallet.  The payload is a JSON document that the host       *)
(* carries from party to party.  Each party has a wallet compute a digest  *)
(* of the document (a ...Digest or Generate... function), signs it with a  *)
(* key of its own and puts the signature into the document; a last party   *)
(* calls Create...Transaction.  The wallet keeps nothing between these     *)
(* calls: whether the signatures still fit the document is decided anew in *)
(* each of them, and the version of the payload, which no party writes     *)
(* down, is derived from the keys that the document happens to have.       *)
(*                                                                         *)
(* A signature is the pair of the key and the bytes it was made over.      *)
(***************************************************************************)
EXTENDS CRCProposal, FiniteSets

CONSTANTS
  Flows,          \* the kinds of documents, a subset of AllFlows
  Keys,           \* the key pairs of the parties
  Contents,       \* the values of the other members
  MaxEdits,       \* how often the host changes the document
  MaxMoves        \* how many changes and signatures are made

VARIABLES
  flow,           \* the kind of the document
  doc,            \* the members of the document
  signed,         \* ghost: the signatures made, with what the signer saw
  created,        \* the payloads for which a transaction was created
  edits           \* the number of changes by the host

vars == <<flow, doc, signed, created, edits>>

NoSig == <<>>

-----------------------------------------------------------------------------
(* The digest functions.  A stage is the member the signature goes into,   *)
(* the member that holds the key it is verified with (Unset if the SDK     *)
(* never verifies it), the bytes signed, by version, and the earlier       *)
(* stages whose signatures the digest function verifies first.             *)

Stage(sig, key, unsigned, after) ==
  [sig |-> sig, key |-> key, unsigned |-> unsigned, after |-> after]

\* Mutant: the digest is that of the version without the text.
OwnerStageWithoutText(t, i) ==
  Stage(Verified(t)[i][1], Verified(t)[i][2], [v \in 0..1 |-> OwnerUnsigned(t, 0)], {})

\* The owner, and the new owner or secretary general, who sign the same bytes:
\* one digest function serves both, and it verifies no signature.
OwnerStage(t, i) ==
  Stage(Verified(t)[i][1], Verified(t)[i][2], [v \in 0..1 |-> OwnerUnsigned(t, v)], {})

MemberStage(t) ==
  Stage("crCouncilMemberSignature", Unset, [v \in 0..1 |-> CRCouncilMemberUnsigned(t, v)],
        DOMAIN Verified(t))

ProposalOwnerDigest == OwnerStage("normal", 1)
ProposalCRCouncilMemberDigest == MemberStage("normal")

ProposalChangeOwnerDigest(i) == OwnerStage("changeProposalOwner", i)
ProposalChangeOwnerCRCouncilMemberDigest == MemberStage("changeProposalOwner")

TerminateProposalOwnerDigest == OwnerStage("terminateProposal", 1)
TerminateProposalCRCouncilMemberDigest == MemberStage("terminateProposal")

ProposalSecretaryGeneralElectionDigest(i) == OwnerStage("secretaryGeneralElection", i)
ProposalSecretaryGeneralElectionCRCouncilMemberDigest == MemberStage("secretaryGeneralElection")

ReserveCustomIDOwnerDigest == OwnerStage("reserveCustomID", 1)
ReserveCustomIDCRCouncilMemberDigest == MemberStage("reserveCustomID")

ReceiveCustomIDOwnerDigest == OwnerStage("receiveCustomID", 1)
ReceiveCustomIDCRCouncilMemberDigest == MemberStage("receiveCustomID")

ChangeCustomIDFeeOwnerDigest == OwnerStage("changeCustomIDFee", 1)
ChangeCustomIDFeeCRCouncilMemberDigest == MemberStage("changeCustomIDFee")

RegisterSidechainOwnerDigest == OwnerStage("registerSideChain", 1)
RegisterSidechainCRCouncilMemberDigest == MemberStage("registerSideChain")

ProposalTrackingOwnerDigest ==
  Stage("ownerSign", "ownerPubKey", [v \in 0..1 |-> TrackingOwnerUnsigned(v)], {})
\* Mutant: the owner's signature is not verified for the new owner.
NewOwnerDigestUnchecked ==
  Stage("newOwnerSign", "newOwnerPubKey", [v \in 0..1 |-> TrackingNewOwnerUnsigned(v)], {})
ProposalTrackingNewOwnerDigest ==
  Stage("newOwnerSign", "newOwnerPubKey", [v \in 0..1 |-> TrackingNewOwnerUnsigned(v)], {1})
ProposalTrackingSecretaryDigest ==
  Stage("secretaryGeneralSignature", Unset, [v \in 0..1 |-> TrackingSecretaryUnsigned(v)], {1, 2})

\* The payloads with one signature: Serialize writes what SerializeUnsigned
\* writes, which is signed, and then the signature.
Single(sig, key, wire) ==
  Stage(sig, key, [v \in 0..1 |-> SubSeq(wire[v], 1, Len(wire[v]) - 1)], {})

ProposalReviewDigest ==
  Single("signature", Unset, [v \in 0..1 |-> CRCProposalReview(v).Serialize])
ProposalWithdrawDigest ==
  Single("signature", "ownerPubkey", [v \in 0..1 |-> CRCProposalWithdraw(v).Serialize])
CRCouncilMemberClaimNodeDigest ==
  Single("crCouncilMemberSignature", Unset, [v \in 0..1 |-> CRCouncilMemberClaimNode(v).Serialize])
GenerateCRInfoPayload ==
  Single("signature", "code", [v \in 0..1 |-> CRInfo(v).Serialize])
GenerateUnregisterCRPayload ==
  Single("signature", Unset, [v \in 0..1 |-> UnregisterCR(v).Serialize])
GenerateProducerPayload ==
  Single("signature", "ownerPublicKey", [v \in 0..1 |-> ProducerInfo(v).Serialize])
GenerateCancelProducerPayload ==
  Single("signature", "publicKey", [v \in 0..1 |-> CancelProducer(v).Serialize])
DPoSV2ClaimRewardDigest ==
  Single("signature", Unset, [v \in 0..1 |-> DPoSV2ClaimReward(v).Serialize])
UnstakeDigest ==
  Single("signature", Unset, [v \in 0..1 |-> Unstake(v).Serialize])

-----------------------------------------------------------------------------
(* The kinds of documents: who signs them in turn, which signatures the    *)
(* Create function verifies, and which ones it only wants to be there.     *)

Created(stages, verified, present) ==
  [stages |-> stages, verified |-> verified, present |-> present]

CreateProposalTransaction ==
  Created(<<ProposalOwnerDigest, ProposalCRCouncilMemberDigest>>, {1}, {2})

\* Mutant: the signature of the new owner only has to be there.
ChangeOwnerUnverified ==
  Created(<<ProposalChangeOwnerDigest(1), ProposalChangeOwnerDigest(2),
            ProposalChangeOwnerCRCouncilMemberDigest>>, {1}, {2, 3})

CreateProposalChangeOwnerTransaction ==
  Created(<<ProposalChangeOwnerDigest(1), ProposalChangeOwnerDigest(2),
            ProposalChangeOwnerCRCouncilMemberDigest>>, {1, 2}, {3})

CreateTerminateProposalTransaction ==
  Created(<<TerminateProposalOwnerDigest, TerminateProposalCRCouncilMemberDigest>>, {1}, {2})

CreateSecretaryGeneralElectionTransaction ==
  Created(<<ProposalSecretaryGeneralElectionDigest(1), ProposalSecretaryGeneralElectionDigest(2),
            ProposalSecretaryGeneralElectionCRCouncilMemberDigest>>, {1, 2}, {3})

CreateReserveCustomIDTransaction ==
  Created(<<ReserveCustomIDOwnerDigest, ReserveCustomIDCRCouncilMemberDigest>>, {1}, {2})

CreateReceiveCustomIDTransaction ==
  Created(<<ReceiveCustomIDOwnerDigest, ReceiveCustomIDCRCouncilMemberDigest>>, {1}, {2})

CreateChangeCustomIDFeeTransaction ==
  Created(<<ChangeCustomIDFeeOwnerDigest, ChangeCustomIDFeeCRCouncilMemberDigest>>, {1}, {2})

CreateRegisterSidechainTransaction ==
  Created(<<RegisterSidechainOwnerDigest, RegisterSidechainCRCouncilMemberDigest>>, {1}, {2})

CreateProposalTrackingTransaction ==
  Created(<<ProposalTrackingOwnerDigest, ProposalTrackingNewOwnerDigest,
            ProposalTrackingSecretaryDigest>>, {1, 2}, {3})

CreateProposalReviewTransaction           == Created(<<ProposalReviewDigest>>, {}, {1})
CreateProposalWithdrawTransaction         == Created(<<ProposalWithdrawDigest>>, {1}, {})
CreateCRCouncilMemberClaimNodeTransaction == Created(<<CRCouncilMemberClaimNodeDigest>>, {}, {1})
CreateRegisterCRTransaction               == Created(<<GenerateCRInfoPayload>>, {1}, {})
CreateUpdateCRTransaction                 == Created(<<GenerateCRInfoPayload>>, {}, {})
CreateUnregisterCRTransaction             == Created(<<GenerateUnregisterCRPayload>>, {}, {1})
CreateRegisterProducerTransaction         == Created(<<GenerateProducerPayload>>, {}, {})
CreateCancelProducerTransaction           == Created(<<GenerateCancelProducerPayload>>, {}, {})
CreateDPoSV2ClaimRewardTransaction        == Created(<<DPoSV2ClaimRewardDigest>>, {}, {})
CreateUnstakeTransaction                  == Created(<<UnstakeDigest>>, {}, {})

ProposalFlows ==
  {"normal", "changeProposalOwner", "terminateProposal", "secretaryGeneralElection",
   "reserveCustomID", "receiveCustomID", "changeCustomIDFee", "registerSideChain"}

AllFlows ==
  ProposalFlows \cup
  {"tracking", "review", "withdraw", "claimNode", "registerCR", "updateCR", "unregisterCR",
   "registerProducer", "cancelProducer", "claimReward", "unstake"}

Creation(f) ==
  CASE f = "normal"                   -> CreateProposalTransaction
    [] f = "changeProposalOwner"      -> CreateProposalChangeOwnerTransaction
    [] f = "terminateProposal"        -> CreateTerminateProposalTransaction
    [] f = "secretaryGeneralElection" -> CreateSecretaryGeneralElectionTransaction
    [] f = "reserveCustomID"          -> CreateReserveCustomIDTransaction
    [] f = "receiveCustomID"          -> CreateReceiveCustomIDTransaction
    [] f = "changeCustomIDFee"        -> CreateChangeCustomIDFeeTransaction
    [] f = "registerSideChain"        -> CreateRegisterSidechainTransaction
    [] f = "tracking"                 -> CreateProposalTrackingTransaction
    [] f = "review"                   -> CreateProposalReviewTransaction
    [] f = "withdraw"                 -> CreateProposalWithdrawTransaction
    [] f = "claimNode"                -> CreateCRCouncilMemberClaimNodeTransaction
    [] f = "registerCR"               -> CreateRegisterCRTransaction
    [] f = "updateCR"                 -> CreateUpdateCRTransaction
    [] f = "unregisterCR"             -> CreateUnregisterCRTransaction
    [] f = "registerProducer"         -> CreateRegisterProducerTransaction
    [] f = "cancelProducer"           -> CreateCancelProducerTransaction
    [] f = "claimReward"              -> CreateDPoSV2ClaimRewardTransaction
    [] f = "unstake"                  -> CreateUnstakeTransaction

ASSUME FlowsAssumption == Flows \subseteq AllFlows
ASSUME KeysAssumption == Unset \notin Keys
ASSUME ContentsAssumption == Contents # {}
ASSUME BoundsAssumption == MaxEdits \in Nat /\ MaxMoves \in Nat

Stages(f) == Creation(f).stages

\* The Create function comes after the last stage.
Last(f) == Len(Stages(f)) + 1

-----------------------------------------------------------------------------
(* What a digest or Create function makes of a document *)

\* The members that hold a long text and the members that hold its hash.
HashOf ==
  [draftData |-> "draftHash", messageData |-> "messageHash", opinionData |-> "opinionHash",
   secretaryGeneralOpinionData |-> "secretaryGeneralOpinionHash"]

Has(val, m) == val[m] # Unset

\* Mutant: the transaction always has the newest version.
VersionNewest(f, i, val) ==
  LET newer == CASE f \in ProposalFlows        -> i = Last(f) \/ Has(val, "draftData")
                 [] f = "tracking" /\ i \in 1..2 -> Has(val, "messageData")
                 [] f = "tracking" /\ i \in 3..4 -> /\ Has(val, "messageData")
                                                  /\ Has(val, "secretaryGeneralOpinionData")
                 [] f = "review"               -> Has(val, "opinionData")
                 [] f \in {"withdraw", "registerCR", "updateCR"} -> TRUE
                 [] OTHER                      -> FALSE
  IN  IF newer THEN 1 ELSE 0

\* The version of the payload, from the keys of the document.  The owners of a
\* tracking payload look for the message, the secretary general and the Create
\* function for the message and the opinion.
Version(f, i, val) ==
  LET newer == CASE f \in ProposalFlows        -> Has(val, "draftData")
                 [] f = "tracking" /\ i \in 1..2 -> Has(val, "messageData")
                 [] f = "tracking" /\ i \in 3..4 -> /\ Has(val, "messageData")
                                                  /\ Has(val, "secretaryGeneralOpinionData")
                 [] f = "review"               -> Has(val, "opinionData")
                 [] f \in {"withdraw", "registerCR", "updateCR"} -> TRUE
                 [] OTHER                      -> FALSE
  IN  IF newer THEN 1 ELSE 0

\* FromJson: a text that is read must have the hash that is read.
Readable(f, i, val) ==
  LET read == Stages(f)[IF i = Last(f) THEN i - 1 ELSE i].unsigned[Version(f, i, val)]
  IN  \A m \in MembersOf(read) \cap DOMAIN HashOf : val[m] = val[HashOf[m]]

Digest(f, j, v, val) == Written(Stages(f)[j].unsigned[v], val)

\* The signature of stage j verifies, a digest being computed with version v.  A
\* tracking payload need not have a new owner.
Verifies(f, j, v, val) ==
  LET s == Stages(f)[j]
  IN  Has(val, s.key) => val[s.sig] = <<val[s.key], Digest(f, j, v, val)>>

\* FromJson succeeds and the IsValid function of the stage returns true.
Accepts(f, i, val) ==
  /\ Readable(f, i, val)
  /\ \A j \in IF i = Last(f) THEN Creation(f).verified ELSE Stages(f)[i].after :
       Verifies(f, j, Version(f, i, val), val)
  /\ i = Last(f) => \A j \in Creation(f).present : val[Stages(f)[j].sig] # NoSig

-----------------------------------------------------------------------------
SigMembers(f) == {Stages(f)[i].sig : i \in DOMAIN Stages(f)}
KeyMembers(f) == {Stages(f)[i].key : i \in DOMAIN Stages(f)} \ {Unset}

SignedMembers(f) == UNION {MembersOf(Stages(f)[i].unsigned[v]) : i \in DOMAIN Stages(f), v \in 0..1}

DocMembers(f) == SignedMembers(f) \cup SigMembers(f)

\* What the host may write under a key.  The digest and Create functions of the
\* special proposals overwrite the type.
Values(f, m) ==
  CASE m \in KeyMembers(f) /\ m = "newOwnerPubKey" -> Keys \cup {Unset}
    [] m \in KeyMembers(f) /\ m # "newOwnerPubKey" -> Keys
    [] m \in DOMAIN HashOf              -> Contents \cup {Unset}
    [] m = "type" /\ f = "normal"       -> {"normal", "elip"}
    [] m = "type" /\ f \in ProposalFlows \ {"normal"} -> {f}
    [] OTHER                            -> Contents

\* The signature that a record of a signature made stands for.
SigOf(g) == <<g.key, Digest(g.flow, g.stage, g.version, g.doc)>>

Issued == {SigOf(g) : g \in signed}

\* The document as the host first writes it: it has one content throughout, any
\* keys, and any of the texts.
Draft(f, c, keys, texts) ==
  [m \in DocMembers(f) |->
     IF m \in SigMembers(f) THEN NoSig
     ELSE CASE m \in KeyMembers(f)     -> keys[m]
            [] m \in DOMAIN HashOf \ texts -> Unset
            [] m = "type" /\ f \in ProposalFlows -> f
            [] OTHER                   -> c]

Init ==
  /\ flow \in Flows
  /\ \E keys \in [KeyMembers(flow) -> Keys \cup {Unset}], texts \in SUBSET (DOMAIN HashOf \cap DocMembers(flow)) :
       /\ \A m \in KeyMembers(flow) : keys[m] \in Values(flow, m)
       /\ doc = Draft(flow, CHOOSE c \in Contents : TRUE, keys, texts)
  /\ signed = {} /\ created = {} /\ edits = 0

\* The host changes a member of the document, or removes a text,
Edit(m, x) ==
  /\ edits < MaxEdits /\ edits + Cardinality(signed) < MaxMoves
  /\ doc' = [doc EXCEPT ![m] = x]
  /\ edits' = edits + 1
  /\ UNCHANGED <<flow, signed, created>>

EditMember ==
  \E m \in DocMembers(flow) \ SigMembers(flow) : \E x \in Values(flow, m) \ {doc[m]} : Edit(m, x)

\* or puts in a signature that was made for some document, or none.
EditSignature ==
  \E m \in SigMembers(flow) : \E x \in (Issued \cup {NoSig}) \ {doc[m]} : Edit(m, x)

\* Mutant: the signature is over the digest of the other version.
SignOther(i, k) ==
  LET g == [flow |-> flow, stage |-> i, key |-> k, version |-> Version(flow, i, doc), doc |-> doc]
  IN  /\ edits + Cardinality(signed) < MaxMoves
      /\ Accepts(flow, i, doc)
      /\ signed' = signed \cup {g}
      /\ doc' = [doc EXCEPT ![Stages(flow)[i].sig] = SigOf([g EXCEPT !.version = 1 - g.version])]
      /\ UNCHANGED <<flow, created, edits>>

\* A party computes a digest, signs it with a key and puts the signature in.
Sign(i, k) ==
  LET g == [flow |-> flow, stage |-> i, key |-> k, version |-> Version(flow, i, doc), doc |-> doc]
  IN  /\ edits + Cardinality(signed) < MaxMoves
      /\ Accepts(flow, i, doc)
      /\ signed' = signed \cup {g}
      /\ doc' = [doc EXCEPT ![Stages(flow)[i].sig] = SigOf(g)]
      /\ UNCHANGED <<flow, created, edits>>

Create ==
  /\ Accepts(flow, Last(flow), doc)
  /\ created' = created \cup {[version |-> Version(flow, Last(flow), doc), doc |-> doc]}
  /\ UNCHANGED <<flow, doc, signed, edits>>

Next ==
  \/ EditMember
  \/ EditSignature
  \/ \E i \in DOMAIN Stages(flow), k \in Keys : Sign(i, k)
  \/ Create

Spec == Init /\ [][Next]_vars

-----------------------------------------------------------------------------
TypeOK ==
  /\ flow \in Flows
  /\ DOMAIN doc = DocMembers(flow)
  /\ \A m \in DocMembers(flow) \ SigMembers(flow) : doc[m] \in Values(flow, m)
  /\ \A m \in SigMembers(flow) : doc[m] = NoSig \/ doc[m] \in Issued
  /\ \A g \in signed : g.flow = flow /\ g.stage \in DOMAIN Stages(flow) /\ g.key \in Keys
  /\ edits \in 0..MaxEdits

\* The stages whose signature comes with the key to verify it: all that have such
\* a key, except in the payloads that are created without a look at it.
Verifiable(f) ==
  IF f \in {"updateCR", "registerProducer", "cancelProducer"} THEN {}
  ELSE {j \in DOMAIN Stages(f) : Stages(f)[j].key # Unset}

\* A payload gets into a transaction only if every party whose key it names (the
\* owner, the new owner, the new secretary general, the candidate) has signed these
\* very bytes with that key, however the host edited the document in between
\* (IsValid of CRCProposal, CRCProposalTracking, CRCProposalWithdraw and CRInfo,
\* called by the Create functions).
CreatedWasAgreed ==
  \A c \in created : \A j \in Verifiable(flow) :
    LET key == c.doc[Stages(flow)[j].key]
    IN  key # Unset => <<key, Digest(flow, j, c.version, c.doc)>> \in Issued

\* Nobody is made to sign over a signature that was not given: when a digest covers
\* the signature of an earlier party, that party has signed what it covers of the
\* document, as it is at that moment (IsValid...Unsigned, called by the digest
\* functions of the council member, the new owner and the secretary general).
SignedInOrder ==
  \A g \in signed : \A j \in Verifiable(flow) :
    LET key == g.doc[Stages(flow)[j].key]
    IN  Stages(flow)[j].sig \in MembersOf(Stages(flow)[g.stage].unsigned[g.version]) /\ key # Unset =>
          <<key, Digest(flow, j, g.version, g.doc)>> \in Issued

\* The members that the payload has before the signature of stage j.
WrittenBefore(f, j, v) ==
  LET all == Stages(f)[Len(Stages(f))].unsigned[v]
  IN  {all[i][2] : i \in {n \in DOMAIN all : \A k \in 1..n : all[k][2] # Stages(f)[j].sig}} \ SigMembers(f)

\* The parties whose signatures are verified have seen, member by member and text
\* by text, the payload that gets into the transaction: neither an edit nor a
\* change of the version that an edit brings about slips in under their signatures
\* (SerializeOwnerUnsigned and the other functions that write what is signed).
AgreedContent ==
  \A c \in created : \A j \in Verifiable(flow) :
    c.doc[Stages(flow)[j].key] # Unset =>
      \E g \in signed :
        /\ g.key = c.doc[Stages(flow)[j].key] /\ g.version = c.version
        /\ \A m \in WrittenBefore(flow, j, c.version) : g.doc[m] = c.doc[m]

\* A document whose texts fit their hashes and in which every party so far has signed
\* what its own digest function gave is accepted by the next function, a digest function or the Create function,
\* in one case excepted: the owners of a tracking payload with a message and
\* without an opinion sign version 1, the secretary general's digest and the
\* transaction are computed with version 0 and refuse their signatures
\* (MainchainSubWallet: the versions of the ...Digest and Create functions).
Completable ==
  \A i \in 1..Last(flow) :
    /\ \A m \in DOMAIN HashOf \cap DocMembers(flow) : Has(doc, m) => doc[m] = doc[HashOf[m]]
    /\ \A j \in IF i = Last(flow) THEN Creation(flow).verified ELSE Stages(flow)[i].after :
         Verifies(flow, j, Version(flow, j, doc), doc)
    /\ i = Last(flow) => \A j \in Creation(flow).present : doc[Stages(flow)[j].sig] # NoSig
    => (Accepts(flow, i, doc) <=>
          ~(flow = "tracking" /\ i > 2 /\ Has(doc, "messageData") /\ ~Has(doc, "secretaryGeneralOpinionData")))
=============================================================================
