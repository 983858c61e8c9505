--------------------------- MODULE PayloadsProofs ---------------------------
(***************************************************************************)
(* Proofs about the payloads.                                              *)
(*                                                                         *)
(* First the payloads that several parties sign, for any set of keys, any  *)
(* contents and any number of edits and signatures: no payload gets into a *)
(* transaction without the signatures of the parties it names, nobody      *)
(* signs over a signature that was not given, the parties have seen what   *)
(* gets into the transaction, and a document that was signed in turn is    *)
(* accepted, but for one case.  The inductive invariant says where the     *)
(* signatures in the document and the records of them come from; the rest  *)
(* rests on lemmas about the layouts of what is signed.                    *)
(*                                                                         *)
(* Then the conversions of every class, for every version and any number   *)
(* of conversions in any order: bytes are kept, Equal sees them, and       *)
(* EstimateSize counts them.  For each class it is shown on what its       *)
(* functions agree; the inductive invariant then says which members keep   *)
(* their values.                                                           *)
(***************************************************************************)
EXTENDS Proposals, PayloadForms, DataProofs

\* Every signature in the document was made by somebody, for some document.
SignaturesIssued ==
  /\ flow \in Flows
  /\ DOMAIN doc = DocMembers(flow)
  /\ doc = [m \in DOMAIN doc |-> doc[m]]
  /\ \A m \in SigMembers(flow) : doc[m] = NoSig \/ doc[m] \in Issued

IInv == SignaturesIssued /\ CreatedWasAgreed

\* The stages with a key, when there are one, two or three stages and the last one
\* may have none.
LEMMA KeysOfOne ==
  ASSUME NEW a
  PROVE  /\ {j \in DOMAIN <<a>> : <<a>>[j].key # Unset} \subseteq {1}
         /\ a.key = Unset => {j \in DOMAIN <<a>> : <<a>>[j].key # Unset} = {}
  OBVIOUS

LEMMA KeysOfTwo ==
  ASSUME NEW a, NEW b, b.key = Unset
  PROVE  {j \in DOMAIN <<a, b>> : <<a, b>>[j].key # Unset} \subseteq {1}
  OBVIOUS

LEMMA KeysOfThree ==
  ASSUME NEW a, NEW b, NEW c, c.key = Unset
  PROVE  {j \in DOMAIN <<a, b, c>> : <<a, b, c>>[j].key # Unset} \subseteq {1, 2}
  OBVIOUS

\* The council member's and the secretary general's signatures come without a key.
LEMMA NoKey ==
  /\ \A t : MemberStage(t).key = Unset
  /\ ProposalTrackingSecretaryDigest.key = Unset
  BY DEF MemberStage, ProposalTrackingSecretaryDigest, Stage

LEMMA NoKeySingle ==
  /\ ProposalReviewDigest.key = Unset /\ CRCouncilMemberClaimNodeDigest.key = Unset
  /\ GenerateUnregisterCRPayload.key = Unset /\ DPoSV2ClaimRewardDigest.key = Unset
  /\ UnstakeDigest.key = Unset
  BY DEF ProposalReviewDigest, CRCouncilMemberClaimNodeDigest, GenerateUnregisterCRPayload,
     DPoSV2ClaimRewardDigest, UnstakeDigest, Single, Stage

\* The Create functions verify every signature that comes with a key.
LEMMA OneOwner ==
  ASSUME NEW f \in ProposalFlows \ {"changeProposalOwner", "secretaryGeneralElection"}
  PROVE  Verifiable(f) \subseteq Creation(f).verified
<1>1. CASE f = "normal"
  BY <1>1, KeysOfTwo, NoKey DEF Verifiable, Stages, Creation, Created, CreateProposalTransaction,
     ProposalCRCouncilMemberDigest
<1>2. CASE f = "terminateProposal"
  BY <1>2, KeysOfTwo, NoKey DEF Verifiable, Stages, Creation, Created, CreateTerminateProposalTransaction,
     TerminateProposalCRCouncilMemberDigest
<1>3. CASE f = "reserveCustomID"
  BY <1>3, KeysOfTwo, NoKey DEF Verifiable, Stages, Creation, Created, CreateReserveCustomIDTransaction,
     ReserveCustomIDCRCouncilMemberDigest
<1>4. CASE f = "receiveCustomID"
  BY <1>4, KeysOfTwo, NoKey DEF Verifiable, Stages, Creation, Created, CreateReceiveCustomIDTransaction,
     ReceiveCustomIDCRCouncilMemberDigest
<1>5. CASE f = "changeCustomIDFee"
  BY <1>5, KeysOfTwo, NoKey DEF Verifiable, Stages, Creation, Created, CreateChangeCustomIDFeeTransaction,
     ChangeCustomIDFeeCRCouncilMemberDigest
<1>6. CASE f = "registerSideChain"
  BY <1>6, KeysOfTwo, NoKey DEF Verifiable, Stages, Creation, Created, CreateRegisterSidechainTransaction,
     RegisterSidechainCRCouncilMemberDigest
<1> QED BY <1>1, <1>2, <1>3, <1>4, <1>5, <1>6 DEF AllFlows, ProposalFlows

LEMMA TwoOwners ==
  ASSUME NEW f \in {"changeProposalOwner", "secretaryGeneralElection", "tracking"}
  PROVE  Verifiable(f) \subseteq Creation(f).verified
<1>1. CASE f = "changeProposalOwner"
  BY <1>1, KeysOfThree, NoKey DEF Verifiable, Stages, Creation, Created, CreateProposalChangeOwnerTransaction,
     ProposalChangeOwnerCRCouncilMemberDigest
<1>2. CASE f = "secretaryGeneralElection"
  BY <1>2, KeysOfThree, NoKey DEF Verifiable, Stages, Creation, Created, CreateSecretaryGeneralElectionTransaction,
     ProposalSecretaryGeneralElectionCRCouncilMemberDigest
<1>3. CASE f = "tracking"
  BY <1>3, KeysOfThree, NoKey DEF Verifiable, Stages, Creation, Created, CreateProposalTrackingTransaction
<1> QED BY <1>1, <1>2, <1>3 DEF AllFlows, ProposalFlows

LEMMA OneSignature ==
  ASSUME NEW f \in AllFlows \ (ProposalFlows \cup {"tracking"})
  PROVE  Verifiable(f) \subseteq Creation(f).verified
<1>1. CASE f = "review"
  BY <1>1, KeysOfOne, NoKeySingle DEF Verifiable, Stages, Creation, Created, CreateProposalReviewTransaction
<1>2. CASE f = "withdraw"
  BY <1>2, KeysOfOne, NoKeySingle DEF Verifiable, Stages, Creation, Created, CreateProposalWithdrawTransaction
<1>3. CASE f = "claimNode"
  BY <1>3, KeysOfOne, NoKeySingle DEF Verifiable, Stages, Creation, Created, CreateCRCouncilMemberClaimNodeTransaction
<1>4. CASE f = "registerCR"
  BY <1>4, KeysOfOne, NoKeySingle DEF Verifiable, Stages, Creation, Created, CreateRegisterCRTransaction
<1>5. CASE f = "unregisterCR"
  BY <1>5, KeysOfOne, NoKeySingle DEF Verifiable, Stages, Creation, Created, CreateUnregisterCRTransaction
<1>6. CASE f = "claimReward"
  BY <1>6, KeysOfOne, NoKeySingle DEF Verifiable, Stages, Creation, Created, CreateDPoSV2ClaimRewardTransaction
<1>7. CASE f = "unstake"
  BY <1>7, KeysOfOne, NoKeySingle DEF Verifiable, Stages, Creation, Created, CreateUnstakeTransaction
<1>8. CASE f \in {"updateCR", "registerProducer", "cancelProducer"}
  BY <1>8 DEF Verifiable
<1> QED BY <1>8, <1>1, <1>2, <1>3, <1>4, <1>5, <1>6, <1>7 DEF AllFlows, ProposalFlows

LEMMA VerifiableIsVerified ==
  ASSUME NEW f \in AllFlows
  PROVE  Verifiable(f) \subseteq Creation(f).verified
  BY OneOwner, TwoOwners, OneSignature DEF AllFlows, ProposalFlows

LEMMA SigMembersInDoc ==
  ASSUME NEW f
  PROVE  SigMembers(f) \subseteq DocMembers(f)
  BY Zenon DEF DocMembers

\* A stage that can be verified is a stage.
LEMMA VerifiableIsStage ==
  ASSUME NEW f, NEW j \in Verifiable(f)
  PROVE  j \in DOMAIN Stages(f) /\ Stages(f)[j].sig \in SigMembers(f)
  BY DEF Verifiable, SigMembers

\* Signatures that were made stay made.
LEMMA IssuedGrows ==
  ASSUME signed \subseteq signed'
  PROVE  Issued \subseteq Issued'
  BY DEF Issued

LEMMA InitIInv == Init => IInv
<1> SUFFICES ASSUME Init PROVE IInv
  OBVIOUS
<1>1. PICK keys, texts : doc = Draft(flow, CHOOSE c \in Contents : TRUE, keys, texts)
  BY DEF Init
<1>2. flow \in Flows /\ created = {}
  BY DEF Init
<1>3. SignaturesIssued
  <2>1. DOMAIN doc = DocMembers(flow) /\ doc = [m \in DOMAIN doc |-> doc[m]]
    BY <1>1 DEF Draft
  <2>2. SigMembers(flow) \subseteq DocMembers(flow)
    BY SigMembersInDoc
  <2>3. \A m \in SigMembers(flow) : doc[m] = NoSig
    BY <1>1, <2>2 DEF Draft
  <2> QED BY <1>2, <2>1, <2>3 DEF SignaturesIssued
<1> QED BY <1>2, <1>3 DEF IInv, CreatedWasAgreed

\* Putting an issued signature, or none, under a signature member, or anything under
\* another one, leaves only issued signatures in the document.
LEMMA EditKeepsIssued ==
  ASSUME SignaturesIssued, NEW m, NEW x, flow' = flow, Issued \subseteq Issued',
         doc' = [doc EXCEPT ![m] = x],
         m \in SigMembers(flow) => x = NoSig \/ x \in Issued'
  PROVE  SignaturesIssued'
<1>1. DOMAIN doc' = DocMembers(flow') /\ flow' \in Flows
  BY DEF SignaturesIssued, DocMembers, SigMembers
<1>2. \A n \in SigMembers(flow) : doc'[n] = NoSig \/ doc'[n] \in Issued'
  <2> TAKE n \in SigMembers(flow)
  <2>1. n \in DOMAIN doc
    BY SigMembersInDoc DEF SignaturesIssued
  <2>2. doc'[n] = IF n = m THEN x ELSE doc[n]
    BY <2>1
  <2> QED BY <2>2 DEF SignaturesIssued
<1>3. doc' = [n \in DOMAIN doc' |-> doc'[n]]
  OBVIOUS
<1> QED BY <1>1, <1>2, <1>3 DEF SignaturesIssued, SigMembers

\* What was agreed stays agreed.
LEMMA AgreedStays ==
  ASSUME CreatedWasAgreed, flow' = flow, Issued \subseteq Issued', created' = created
  PROVE  CreatedWasAgreed'
  BY DEF CreatedWasAgreed

\* A document that the Create function accepts was signed by the keys it names.
LEMMA AcceptedWasAgreed ==
  ASSUME SignaturesIssued, Accepts(flow, Last(flow), doc), NEW j \in Verifiable(flow),
         doc[Stages(flow)[j].key] # Unset
  PROVE  <<doc[Stages(flow)[j].key], Digest(flow, j, Version(flow, Last(flow), doc), doc)>> \in Issued
<1> DEFINE sig == Stages(flow)[j].sig
           pair == <<doc[Stages(flow)[j].key], Digest(flow, j, Version(flow, Last(flow), doc), doc)>>
<1>1. j \in Creation(flow).verified
  BY VerifiableIsVerified, FlowsAssumption DEF SignaturesIssued
<1>2. Verifies(flow, j, Version(flow, Last(flow), doc), doc)
  BY <1>1 DEF Accepts
<1>3. doc[sig] = pair
  BY <1>2 DEF Verifies, Has
<1>4. pair # NoSig
  BY DEF NoSig
<1>5. sig \in SigMembers(flow)
  BY VerifiableIsStage
<1> QED BY <1>3, <1>4, <1>5 DEF SignaturesIssued

LEMMA NextIInv == IInv /\ [Next]_vars => IInv'
<1> SUFFICES ASSUME IInv, [Next]_vars PROVE IInv'
  OBVIOUS
<1> USE DEF IInv
<1>1. CASE EditMember
  <2>1. PICK m \in DocMembers(flow) \ SigMembers(flow) : \E x \in Values(flow, m) \ {doc[m]} : Edit(m, x)
    BY <1>1 DEF EditMember
  <2>2. PICK x : Edit(m, x)
    BY <2>1
  <2>3. /\ doc' = [doc EXCEPT ![m] = x] /\ flow' = flow
        /\ signed' = signed /\ created' = created
    BY <2>2 DEF Edit
  <2>4. Issued \subseteq Issued'
    BY <2>3, IssuedGrows
  <2>5. SignaturesIssued'
    BY <2>1, <2>3, <2>4, EditKeepsIssued
  <2> QED BY <2>3, <2>4, <2>5, AgreedStays
<1>2. CASE EditSignature
  <2>1. PICK m \in SigMembers(flow) : \E x \in (Issued \cup {NoSig}) \ {doc[m]} : Edit(m, x)
    BY <1>2 DEF EditSignature
  <2>2. PICK x \in Issued \cup {NoSig} : Edit(m, x)
    BY <2>1
  <2>3. /\ doc' = [doc EXCEPT ![m] = x] /\ flow' = flow
        /\ signed' = signed /\ created' = created
    BY <2>2 DEF Edit
  <2>4. Issued \subseteq Issued'
    BY <2>3, IssuedGrows
  <2>5. SignaturesIssued'
    BY <2>2, <2>3, <2>4, EditKeepsIssued
  <2> QED BY <2>3, <2>4, <2>5, AgreedStays
<1>3. CASE \E i \in DOMAIN Stages(flow), k \in Keys : Sign(i, k)
  <2>1. PICK i \in DOMAIN Stages(flow), k \in Keys : Sign(i, k)
    BY <1>3
  <2> DEFINE g == [flow |-> flow, stage |-> i, key |-> k, version |-> Version(flow, i, doc), doc |-> doc]
  <2>2. /\ doc' = [doc EXCEPT ![Stages(flow)[i].sig] = SigOf(g)] /\ flow' = flow
        /\ signed' = signed \cup {g} /\ created' = created
    BY <2>1 DEF Sign
  <2>3. Issued \subseteq Issued'
    BY <2>2, IssuedGrows
  <2>4. SigOf(g) \in Issued'
    BY <2>2 DEF Issued
  <2> HIDE DEF g
  <2>5. SignaturesIssued'
    BY <2>2, <2>3, <2>4, EditKeepsIssued
  <2> QED BY <2>2, <2>3, <2>5, AgreedStays
<1>4. CASE Create
  <2>1. /\ Accepts(flow, Last(flow), doc)
        /\ created' = created \cup {[version |-> Version(flow, Last(flow), doc), doc |-> doc]}
        /\ flow' = flow /\ doc' = doc /\ signed' = signed
    BY <1>4 DEF Create
  <2>2. Issued' = Issued
    BY <2>1 DEF Issued
  <2>3. SignaturesIssued'
    BY <2>1, <2>2 DEF SignaturesIssued
  <2>4. CreatedWasAgreed'
    <3> SUFFICES ASSUME NEW c \in created', NEW j \in Verifiable(flow), c.doc[Stages(flow)[j].key] # Unset
                 PROVE  <<c.doc[Stages(flow)[j].key], Digest(flow, j, c.version, c.doc)>> \in Issued
      BY <2>1, <2>2 DEF CreatedWasAgreed
    <3>1. CASE c \in created
      BY <3>1 DEF CreatedWasAgreed
    <3>2. CASE c = [version |-> Version(flow, Last(flow), doc), doc |-> doc]
      BY <2>1, <3>2, AcceptedWasAgreed
    <3> QED BY <2>1, <3>1, <3>2
  <2> QED BY <2>3, <2>4
<1>5. CASE UNCHANGED vars
  BY <1>5 DEF vars, SignaturesIssued, CreatedWasAgreed, Issued
<1> QED BY <1>1, <1>2, <1>3, <1>4, <1>5 DEF Next

\* Whatever the host edits, in whatever order the parties sign and with whatever
\* keys: a payload that the SDK puts into a transaction carries, for each key that
\* it names and the SDK can verify, a signature that was made with this key over
\* these bytes.
THEOREM SpecCreatedWasAgreed == Spec => []CreatedWasAgreed
<1>1. IInv => CreatedWasAgreed
  BY DEF IInv
<1> QED BY InitIInv, NextIInv, <1>1, PTL DEF Spec

(***************************************************************************)
(* The layouts of a proposal.                                              *)
(***************************************************************************)
BodyMembers ==
  {"budgets", "recipient", "targetProposalHash", "newRecipient", "newOwnerPublicKey",
   "secretaryPublicKey", "secretaryDID", "reservedCustomIDList", "receivedCustomIDList",
   "receiverDID", "customIDFeeRateInfo", "sidechainInfo"}

HeadMembers == {"type", "categoryData", "ownerPublicKey", "draftHash"}

\* No body has a signature or a text of another payload.
LEMMA BodyLayout ==
  ASSUME NEW f \in ProposalFlows
  PROVE  IsLayout(Body(f)) /\ MembersOf(Body(f)) \subseteq BodyMembers
<1>1. IsLayout(NormalOrELIP) /\ MembersOf(NormalOrELIP) \subseteq BodyMembers
  BY LayoutOfTwo DEF NormalOrELIP, BodyMembers, Nested, Hash168, Hash256, VarBytes
<1>2. IsLayout(ChangeOwner) /\ MembersOf(ChangeOwner) \subseteq BodyMembers
  BY LayoutOfThree DEF ChangeOwner, BodyMembers, Nested, Hash168, Hash256, VarBytes
<1>3. IsLayout(TerminateProposal) /\ MembersOf(TerminateProposal) \subseteq BodyMembers
  BY LayoutOfOne, CallMembers DEF TerminateProposal, BodyMembers
<1>4. IsLayout(SecretaryElection) /\ MembersOf(SecretaryElection) \subseteq BodyMembers
  BY LayoutOfTwo DEF SecretaryElection, BodyMembers, Nested, Hash168, Hash256, VarBytes
<1>5. IsLayout(ReserveCustomID) /\ MembersOf(ReserveCustomID) \subseteq BodyMembers
  BY LayoutOfOne, CallMembers DEF ReserveCustomID, BodyMembers
<1>6. IsLayout(ReceiveCustomID) /\ MembersOf(ReceiveCustomID) \subseteq BodyMembers
  BY LayoutOfTwo DEF ReceiveCustomID, BodyMembers, Nested, Hash168, Hash256, VarBytes
<1>7. IsLayout(ChangeCustomIDFee) /\ MembersOf(ChangeCustomIDFee) \subseteq BodyMembers
  BY LayoutOfOne, CallMembers DEF ChangeCustomIDFee, BodyMembers
<1>8. IsLayout(RegisterSidechain) /\ MembersOf(RegisterSidechain) \subseteq BodyMembers
  BY LayoutOfOne, CallMembers DEF RegisterSidechain, BodyMembers
<1>9. /\ Body("normal") = NormalOrELIP
      /\ Body("changeProposalOwner") = ChangeOwner
      /\ Body("terminateProposal") = TerminateProposal
      /\ Body("secretaryGeneralElection") = SecretaryElection
      /\ Body("reserveCustomID") = ReserveCustomID
      /\ Body("receiveCustomID") = ReceiveCustomID
      /\ Body("changeCustomIDFee") = ChangeCustomIDFee
      /\ Body("registerSideChain") = RegisterSidechain
  BY DEF Body, UpgradeTypes
<1>. QED BY <1>1, <1>2, <1>3, <1>4, <1>5, <1>6, <1>7, <1>8, <1>9, Zenon DEF ProposalFlows

\* What the owner signs: in the newer version one member more, the text.
LEMMA OwnerLayout ==
  ASSUME NEW f \in ProposalFlows, NEW v \in 0..1
  PROVE  /\ IsLayout(OwnerUnsigned(f, v)) /\ Len(OwnerUnsigned(f, v)) = 4 + v + Len(Body(f))
         /\ Len(Body(f)) \in Nat
         /\ MembersOf(OwnerUnsigned(f, v)) =
              HeadMembers \cup (IF v = 1 THEN {"draftData"} ELSE {}) \cup MembersOf(Body(f))
<1> DEFINE head == <<Uint16("type"), VarBytes("categoryData"), VarBytes("ownerPublicKey"), Hash256("draftHash")>>
           text == When(v >= 1 /\ f \notin UpgradeTypes, <<VarBytes("draftData")>>)
<1>1. IsLayout(head) /\ Len(head) = 4 /\ MembersOf(head) = HeadMembers
  <2>1. /\ IsLayout(head) /\ Len(head) = 4
        /\ MembersOf(head) = {Uint16("type")[2], VarBytes("categoryData")[2], VarBytes("ownerPublicKey")[2],
                              Hash256("draftHash")[2]} \ {Unset}
    BY LayoutOfFour
  <2> HIDE DEF head
  <2>. QED BY <2>1, CallMembers DEF HeadMembers, Unset
<1>2. IsLayout(text) /\ Len(text) = v /\ MembersOf(text) = IF v = 1 THEN {"draftData"} ELSE {}
  <2>1. f \notin UpgradeTypes
    BY DEF ProposalFlows, UpgradeTypes
  <2>2. CASE v = 1
    <3>1. text = <<VarBytes("draftData")>>
      BY <2>1, <2>2 DEF When
    <3>2. VarBytes("draftData")[2] = "draftData" /\ "draftData" # Unset
      BY DEF VarBytes, Unset
    <3> HIDE DEF text
    <3>. QED BY <2>2, <3>1, <3>2, LayoutOfOne
  <2>3. CASE v = 0
    <3>1. text = <<>>
      BY <2>3 DEF When
    <3> HIDE DEF text
    <3>. QED BY <2>3, <3>1, LayoutOfNone
  <2>. QED BY <2>2, <2>3
<1>3. OwnerUnsigned(f, v) = (head \o text) \o Body(f)
  BY DEF OwnerUnsigned
<1> HIDE DEF head, text
<1>4. /\ IsLayout(head \o text) /\ Len(head \o text) = 4 + v
      /\ MembersOf(head \o text) = HeadMembers \cup (IF v = 1 THEN {"draftData"} ELSE {})
  <2>1. /\ IsLayout(head \o text) /\ Len(head \o text) = Len(head) + Len(text)
        /\ MembersOf(head \o text) = MembersOf(head) \cup MembersOf(text)
    BY <1>1, <1>2, LayoutConcat, Zenon
  <2>. QED BY <1>1, <1>2, <2>1, Zenon
<1> DEFINE front == head \o text
<1> HIDE DEF front
<1>. QED BY <1>3, <1>4, BodyLayout, LayoutConcat DEF front

\* The signature of the party the type is about, if there is one.
LEMMA CosignedLayout ==
  /\ \A f \in ProposalFlows : IsLayout(Cosigned(f))
       /\ MembersOf(Cosigned(f)) \subseteq {"newOwnerSignature", "secretarySignature"}
  /\ Cosigned("changeProposalOwner") = <<VarBytes("newOwnerSignature")>>
  /\ Cosigned("secretaryGeneralElection") = <<VarBytes("secretarySignature")>>
<1>1. \A x : <<x>> \o <<>> = <<x>> /\ <<>> \o <<x>> = <<x>>
  OBVIOUS
<1>2. Cosigned("changeProposalOwner") = <<VarBytes("newOwnerSignature")>>
  BY <1>1 DEF Cosigned, When
<1>3. Cosigned("secretaryGeneralElection") = <<VarBytes("secretarySignature")>>
  BY <1>1 DEF Cosigned, When
<1>4. ASSUME NEW f \in ProposalFlows
      PROVE  IsLayout(Cosigned(f)) /\ MembersOf(Cosigned(f)) \subseteq {"newOwnerSignature", "secretarySignature"}
  <2>1. CASE f = "changeProposalOwner"
    BY <1>2, <2>1, LayoutOfOne DEF VarBytes
  <2>2. CASE f = "secretaryGeneralElection"
    BY <1>3, <2>2, LayoutOfOne DEF VarBytes
  <2>3. CASE f \notin {"changeProposalOwner", "secretaryGeneralElection"}
    <3>1. Cosigned(f) = <<>>
      BY <2>3 DEF Cosigned, When
    <3>. QED BY <3>1, LayoutOfNone
  <2>. QED BY <2>1, <2>2, <2>3
<1>. QED BY <1>2, <1>3, <1>4

\* What the member of the council signs: what the owner signs, then the signatures
\* in the order of the parties.
LEMMA MemberLayout ==
  ASSUME NEW f \in ProposalFlows, NEW v \in 0..1
  PROVE  LET all == CRCouncilMemberUnsigned(f, v)
             own == OwnerUnsigned(f, v)
         IN  /\ IsLayout(all) /\ Len(all) = Len(own) + 2 + Len(Cosigned(f))
             /\ Len(own) \in Nat /\ Len(Cosigned(f)) \in Nat
             /\ MembersOf(all) = MembersOf(own) \cup {"signature", "crCouncilMemberDID"} \cup MembersOf(Cosigned(f))
             /\ \A n \in 1..Len(own) : all[n] = own[n]
             /\ all[Len(own) + 1] = VarBytes("signature")
             /\ \A n \in 1..Len(Cosigned(f)) : all[Len(own) + 1 + n] = Cosigned(f)[n]
<1> DEFINE own == OwnerUnsigned(f, v)
           cos == Cosigned(f)
           sig == VarBytes("signature")
           did == Hash168("crCouncilMemberDID")
           s1 == own \o <<sig>>
           s2 == s1 \o cos
           s3 == s2 \o <<did>>
           all == CRCouncilMemberUnsigned(f, v)
<1>1. IsLayout(own) /\ IsLayout(cos)
  BY OwnerLayout, CosignedLayout
<1>2. /\ sig[2] = "signature" /\ sig[2] # Unset
      /\ did[2] = "crCouncilMemberDID" /\ did[2] # Unset
  <2>1. sig[2] = "signature" /\ did[2] = "crCouncilMemberDID"
    BY CallMembers
  <2> HIDE DEF sig, did
  <2>. QED BY <2>1 DEF Unset
<1>4. all = s3
  BY DEF CRCouncilMemberUnsigned
<1> HIDE DEF own, cos, sig, did, all
<1>5. /\ IsLayout(s1) /\ Len(s1) = Len(own) + 1 /\ Len(own) \in Nat
      /\ MembersOf(s1) = MembersOf(own) \cup {"signature"}
      /\ \A n \in 1..Len(own) : s1[n] = own[n]
      /\ s1[Len(own) + 1] = sig
  <2>1. /\ IsLayout(s1) /\ Len(s1) = Len(own) + 1 /\ Len(own) \in Nat
        /\ MembersOf(s1) = MembersOf(own) \cup {sig[2]}
        /\ \A n \in 1..Len(own) : s1[n] = own[n]
        /\ s1[Len(own) + 1] = sig
    BY <1>1, <1>2, LayoutAppend, Zenon
  <2>. QED BY <1>2, <2>1
<1> HIDE DEF s1
<1>6. /\ IsLayout(s2) /\ Len(s2) = Len(own) + 1 + Len(cos) /\ Len(cos) \in Nat
      /\ MembersOf(s2) = MembersOf(own) \cup {"signature"} \cup MembersOf(cos)
      /\ \A n \in 1..(Len(own) + 1) : s2[n] = s1[n]
      /\ \A n \in 1..Len(cos) : s2[Len(own) + 1 + n] = cos[n]
  BY <1>1, <1>5, LayoutConcat
<1> HIDE DEF s2
<1>7. /\ IsLayout(all) /\ Len(all) = Len(own) + 2 + Len(cos)
      /\ MembersOf(all) = MembersOf(s2) \cup {"crCouncilMemberDID"}
      /\ \A n \in 1..(Len(own) + 1 + Len(cos)) : all[n] = s2[n]
  <2>1. /\ IsLayout(s3) /\ Len(s3) = Len(s2) + 1 /\ Len(s2) \in Nat
        /\ MembersOf(s3) = MembersOf(s2) \cup {did[2]}
        /\ \A n \in 1..Len(s2) : s3[n] = s2[n]
        /\ s3[Len(s2) + 1] = did
    <3>1. IsLayout(s2) /\ did[2] # Unset
      BY <1>2, <1>6
    <3>. QED BY ONLY <3>1, LayoutAppend, Zenon
  <2> HIDE DEF s3
  <2>. QED BY <1>2, <1>4, <1>5, <1>6, <2>1
<1>8. /\ \A n \in 1..Len(own) : all[n] = own[n]
      /\ all[Len(own) + 1] = sig
      /\ \A n \in 1..Len(cos) : all[Len(own) + 1 + n] = cos[n]
  BY <1>5, <1>6, <1>7
<1>9. MembersOf(all) = MembersOf(own) \cup {"signature", "crCouncilMemberDID"} \cup MembersOf(cos)
  BY <1>6, <1>7
<1>. QED BY <1>5, <1>6, <1>7, <1>8, <1>9 DEF own, cos, sig, all

(***************************************************************************)
(* The stages of a proposal: one owner, or an owner and the party the type *)
(* is about, then the member of the council.                               *)
(***************************************************************************)
TwoOwnerFlows == {"changeProposalOwner", "secretaryGeneralElection"}
OneOwnerFlows == ProposalFlows \ TwoOwnerFlows

Owners(f) == IF f \in TwoOwnerFlows THEN 1..2 ELSE {1}

LEMMA VerifiedOf ==
  /\ \A f \in OneOwnerFlows : Verified(f) = << <<"signature", "ownerPublicKey">> >>
  /\ Verified("changeProposalOwner") =
       << <<"signature", "ownerPublicKey">>, <<"newOwnerSignature", "newOwnerPublicKey">> >>
  /\ Verified("secretaryGeneralElection") =
       << <<"signature", "ownerPublicKey">>, <<"secretarySignature", "secretaryPublicKey">> >>
<1>1. /\ Verified("normal") = NormalVerified /\ Verified("terminateProposal") = TerminateProposalVerified
      /\ Verified("reserveCustomID") = ReserveCustomIDVerified
      /\ Verified("receiveCustomID") = ReceiveCustomIDVerified
      /\ Verified("changeCustomIDFee") = ChangeCustomIDFeeVerified
      /\ Verified("registerSideChain") = RegisterSidechainVerified
  BY DEF Verified
<1>2. /\ Verified("changeProposalOwner") = ChangeOwnerVerified
      /\ Verified("secretaryGeneralElection") = SecretaryElectionVerified
  BY DEF Verified
<1>3. \A f \in OneOwnerFlows : Verified(f) = << <<"signature", "ownerPublicKey">> >>
  BY <1>1 DEF OneOwnerFlows, TwoOwnerFlows, ProposalFlows, NormalVerified, TerminateProposalVerified,
     ReserveCustomIDVerified, ReceiveCustomIDVerified, ChangeCustomIDFeeVerified, RegisterSidechainVerified
<1>. QED BY <1>2, <1>3 DEF ChangeOwnerVerified, SecretaryElectionVerified

\* What the digest functions of the owners and of the member are about.
LEMMA OwnerStageOf ==
  ASSUME NEW f \in ProposalFlows, NEW i \in Owners(f)
  PROVE  /\ OwnerStage(f, i).sig = Verified(f)[i][1] /\ OwnerStage(f, i).key = Verified(f)[i][2]
         /\ OwnerStage(f, i).after = {}
         /\ \A v \in 0..1 : OwnerStage(f, i).unsigned[v] = OwnerUnsigned(f, v)
BY DEF OwnerStage, Stage

LEMMA MemberStageOf ==
  ASSUME NEW f \in ProposalFlows
  PROVE  /\ MemberStage(f).sig = "crCouncilMemberSignature" /\ MemberStage(f).key = Unset
         /\ MemberStage(f).after = Owners(f)
         /\ \A v \in 0..1 : MemberStage(f).unsigned[v] = CRCouncilMemberUnsigned(f, v)
<1>1. MemberStage(f).after = DOMAIN Verified(f)
  BY DEF MemberStage, Stage
<1>2. \A a, b : DOMAIN <<a>> = {1} /\ DOMAIN <<a, b>> = 1..2
  OBVIOUS
<1>3. DOMAIN Verified(f) = Owners(f)
  BY <1>2, VerifiedOf DEF Owners, TwoOwnerFlows, OneOwnerFlows
<1>. QED BY <1>1, <1>3 DEF MemberStage, Stage

\* The Create functions of the proposals.
LEMMA OneOwnerCreation ==
  ASSUME NEW f \in OneOwnerFlows
  PROVE  Creation(f) = Created(<<OwnerStage(f, 1), MemberStage(f)>>, {1}, {2})
<1>1. CASE f = "normal"
  BY <1>1 DEF Creation, CreateProposalTransaction, ProposalOwnerDigest, ProposalCRCouncilMemberDigest
<1>2. CASE f = "terminateProposal"
  BY <1>2 DEF Creation, CreateTerminateProposalTransaction, TerminateProposalOwnerDigest,
     TerminateProposalCRCouncilMemberDigest
<1>3. CASE f = "reserveCustomID"
  BY <1>3 DEF Creation, CreateReserveCustomIDTransaction, ReserveCustomIDOwnerDigest,
     ReserveCustomIDCRCouncilMemberDigest
<1>4. CASE f = "receiveCustomID"
  BY <1>4 DEF Creation, CreateReceiveCustomIDTransaction, ReceiveCustomIDOwnerDigest,
     ReceiveCustomIDCRCouncilMemberDigest
<1>5. CASE f = "changeCustomIDFee"
  BY <1>5 DEF Creation, CreateChangeCustomIDFeeTransaction, ChangeCustomIDFeeOwnerDigest,
     ChangeCustomIDFeeCRCouncilMemberDigest
<1>6. CASE f = "registerSideChain"
  BY <1>6 DEF Creation, CreateRegisterSidechainTransaction, RegisterSidechainOwnerDigest,
     RegisterSidechainCRCouncilMemberDigest
<1>. QED BY <1>1, <1>2, <1>3, <1>4, <1>5, <1>6 DEF OneOwnerFlows, TwoOwnerFlows, ProposalFlows

LEMMA TwoOwnerCreation ==
  ASSUME NEW f \in TwoOwnerFlows
  PROVE  Creation(f) = Created(<<OwnerStage(f, 1), OwnerStage(f, 2), MemberStage(f)>>, {1, 2}, {3})
<1>1. CASE f = "changeProposalOwner"
  BY <1>1 DEF Creation, CreateProposalChangeOwnerTransaction, ProposalChangeOwnerDigest,
     ProposalChangeOwnerCRCouncilMemberDigest
<1>2. CASE f = "secretaryGeneralElection"
  BY <1>2 DEF Creation, CreateSecretaryGeneralElectionTransaction, ProposalSecretaryGeneralElectionDigest,
     ProposalSecretaryGeneralElectionCRCouncilMemberDigest
<1>. QED BY <1>1, <1>2 DEF TwoOwnerFlows

\* The stages of every proposal, in one form.
LEMMA ProposalShape ==
  ASSUME NEW f \in ProposalFlows
  PROVE  LET n == IF f \in TwoOwnerFlows THEN 3 ELSE 2
         IN  /\ Len(Stages(f)) = n /\ DOMAIN Stages(f) = 1..n /\ Owners(f) = 1..(n - 1)
             /\ \A i \in Owners(f) : Stages(f)[i] = OwnerStage(f, i)
             /\ Stages(f)[n] = MemberStage(f)
             /\ Creation(f).verified = Owners(f) /\ Creation(f).present = {n}
<1>1. CASE f \in TwoOwnerFlows
  BY <1>1, TwoOwnerCreation DEF Stages, Created, Owners
<1>2. CASE f \notin TwoOwnerFlows
  BY <1>2, OneOwnerCreation DEF Stages, Created, Owners, OneOwnerFlows
<1>. QED BY <1>1, <1>2

(***************************************************************************)
(* The bytes that are signed.  They have the kinds of the members, and the *)
(* values, but not the names of the members.                               *)
(***************************************************************************)
LEMMA SameLayoutSameValues ==
  ASSUME NEW l, NEW a, NEW b, Written(l, a) = Written(l, b), NEW n \in DOMAIN l
  PROVE  a[l[n][2]] = b[l[n][2]]
<1>1. Written(l, a)[n] = <<l[n][1], a[l[n][2]]>> /\ Written(l, b)[n] = <<l[n][1], b[l[n][2]]>>
  BY DEF Written
<1>. QED BY <1>1

LEMMA SameBytesSameKinds ==
  ASSUME NEW l, NEW k, IsLayout(l), IsLayout(k), NEW a, NEW b, Written(l, a) = Written(k, b)
  PROVE  Len(l) = Len(k) /\ Len(l) \in Nat /\ \A n \in 1..Len(l) : l[n][1] = k[n][1]
<1>1. DOMAIN l = 1..Len(l) /\ DOMAIN k = 1..Len(k) /\ Len(l) \in Nat /\ Len(k) \in Nat
  BY DEF IsLayout
<1>2. DOMAIN Written(l, a) = DOMAIN l /\ DOMAIN Written(k, b) = DOMAIN k
  BY DEF Written
<1>3. Len(l) = Len(k)
  <2>1. 1..Len(l) = 1..Len(k)
    BY <1>1, <1>2
  <2>2. ASSUME NEW x \in Nat, NEW y \in Nat, x <= y, y <= x PROVE x = y
    BY <2>2
  <2>3. \A x \in Nat, y \in Nat : 1..x = 1..y => x <= y
    <3> SUFFICES ASSUME NEW x \in Nat, NEW y \in Nat, 1..x = 1..y, x > 0 PROVE x \in 1..y
      OBVIOUS
    <3>1. x \in 1..x
      OBVIOUS
    <3>. QED BY <3>1
  <2>4. Len(l) <= Len(k) /\ Len(k) <= Len(l)
    BY <1>1, <2>1, <2>3, Zenon
  <2>. QED BY <1>1, <2>2, <2>4, Zenon
<1>4. ASSUME NEW n \in 1..Len(l) PROVE l[n][1] = k[n][1]
  <2>1. Written(l, a)[n] = <<l[n][1], a[l[n][2]]>> /\ Written(k, b)[n] = <<k[n][1], b[k[n][2]]>>
    BY <1>1, <1>3 DEF Written
  <2>. QED BY <2>1
<1>. QED BY <1>1, <1>3, <1>4

\* A digest covers the signature of an owner only if it was verified before: the
\* owners' digest covers none, the member's follows all of them.
LEMMA ProposalCovers ==
  ASSUME NEW f \in ProposalFlows, NEW i \in DOMAIN Stages(f), NEW v \in 0..1, NEW j \in Owners(f),
         Stages(f)[j].sig \in MembersOf(Stages(f)[i].unsigned[v])
  PROVE  j \in Stages(f)[i].after
<1>1. CASE i \in Owners(f)
  <2>1. Stages(f)[i].unsigned[v] = OwnerUnsigned(f, v)
    BY <1>1, ProposalShape, OwnerStageOf
  <2>2. Stages(f)[j].sig = Verified(f)[j][1]
    BY ProposalShape, OwnerStageOf
  <2>3. Verified(f)[j][1] \in {"signature", "newOwnerSignature", "secretarySignature"}
    BY VerifiedOf DEF Owners, OneOwnerFlows, TwoOwnerFlows
  <2>4. MembersOf(OwnerUnsigned(f, v)) \subseteq HeadMembers \cup {"draftData"} \cup BodyMembers
    BY OwnerLayout, BodyLayout
  <2>. QED BY <2>1, <2>2, <2>3, <2>4 DEF HeadMembers, BodyMembers
<1>2. CASE i \notin Owners(f)
  <2>1. Stages(f)[i] = MemberStage(f)
    BY <1>2, ProposalShape
  <2>. QED BY <2>1, MemberStageOf
<1>. QED BY <1>1, <1>2

\* What comes before the signature of an owner is what the owner signs, the
\* signatures before it excepted.
LEMMA ProposalWrittenBefore ==
  ASSUME NEW f \in ProposalFlows, NEW v \in 0..1, NEW j \in Owners(f), NEW m \in WrittenBefore(f, j, v)
  PROVE  \E n \in DOMAIN OwnerUnsigned(f, v) : m = OwnerUnsigned(f, v)[n][2]
<1> DEFINE own == OwnerUnsigned(f, v)
           all == CRCouncilMemberUnsigned(f, v)
           cos == Cosigned(f)
<1>1. Stages(f)[Len(Stages(f))].unsigned[v] = all
  BY ProposalShape, MemberStageOf
<1>2. PICK n \in DOMAIN all : /\ m = all[n][2] /\ m \notin SigMembers(f)
                              /\ \A k \in 1..n : all[k][2] # Stages(f)[j].sig
  BY <1>1 DEF WrittenBefore
<1>3. /\ DOMAIN all = 1..Len(all) /\ DOMAIN own = 1..Len(own)
      /\ Len(all) = Len(own) + 2 + Len(cos) /\ Len(own) \in Nat /\ Len(cos) \in Nat
      /\ \A k \in 1..Len(own) : all[k] = own[k]
      /\ all[Len(own) + 1] = VarBytes("signature")
      /\ \A k \in 1..Len(cos) : all[Len(own) + 1 + k] = cos[k]
  <2>1. IsLayout(all) /\ IsLayout(own)
    BY MemberLayout, OwnerLayout
  <2>2. DOMAIN all = 1..Len(all) /\ DOMAIN own = 1..Len(own)
    BY <2>1 DEF IsLayout
  <2>. QED BY <2>2, MemberLayout
<1>4. VarBytes("signature")[2] = "signature"
  BY CallMembers
<1> HIDE DEF own, all, cos
<1>5. "signature" = Stages(f)[1].sig /\ "signature" \in SigMembers(f)
  <2>1. 1 \in Owners(f) /\ Verified(f)[1][1] = "signature"
    BY VerifiedOf DEF Owners, OneOwnerFlows, TwoOwnerFlows
  <2>2. Stages(f)[1].sig = "signature" /\ 1 \in DOMAIN Stages(f)
    BY <2>1, ProposalShape, OwnerStageOf
  <2>. QED BY <2>2 DEF SigMembers
<1>6. CASE j = 1
  <2>1. ~(Len(own) + 1 \in 1..n)
    BY <1>2, <1>3, <1>4, <1>5, <1>6
  <2>2. n \in 1..Len(own)
    BY <1>2, <1>3, <2>1
  <2>. QED BY <1>2, <1>3, <2>2 DEF own
<1>7. CASE j = 2
  <2>1. f \in TwoOwnerFlows
    BY <1>7 DEF Owners
  <2>2. Len(cos) = 1 /\ cos[1][2] = Stages(f)[2].sig
    <3>1. Stages(f)[2].sig = Verified(f)[2][1]
      BY <1>7, ProposalShape, OwnerStageOf
    <3>2. CASE f = "changeProposalOwner"
      BY <3>1, <3>2, CosignedLayout, VerifiedOf, CallMembers DEF cos
    <3>3. CASE f = "secretaryGeneralElection"
      BY <3>1, <3>3, CosignedLayout, VerifiedOf, CallMembers DEF cos
    <3>. QED BY <2>1, <3>2, <3>3 DEF TwoOwnerFlows
  <2>3. all[Len(own) + 2][2] = Stages(f)[2].sig
    BY <1>3, <2>2
  <2>4. ~(Len(own) + 2 \in 1..n)
    BY <1>2, <1>7, <2>3
  <2>5. n # Len(own) + 1
    BY <1>2, <1>3, <1>4, <1>5
  <2>6. n \in 1..Len(own)
    BY <1>2, <1>3, <2>4, <2>5
  <2>. QED BY <1>2, <1>3, <2>6 DEF own
<1>. QED BY <1>6, <1>7 DEF Owners

\* Bytes that an owner's signature covers have one reading: the version and the
\* values of all members before the signature.
LEMMA ProposalBytes ==
  ASSUME NEW f \in ProposalFlows, NEW i \in DOMAIN Stages(f), NEW j \in Owners(f),
         NEW v \in 0..1, NEW u \in 0..1, NEW a, NEW b,
         Written(Stages(f)[j].unsigned[v], a) = Written(Stages(f)[i].unsigned[u], b)
  PROVE  v = u /\ \A m \in WrittenBefore(f, j, v) : a[m] = b[m]
<1>1. Stages(f)[j].unsigned[v] = OwnerUnsigned(f, v)
  BY ProposalShape, OwnerStageOf
<1>2. /\ \A x \in 0..1 : IsLayout(OwnerUnsigned(f, x)) /\ Len(OwnerUnsigned(f, x)) = 4 + x + Len(Body(f))
      /\ Len(Body(f)) \in Nat
  BY OwnerLayout
<1>3. CASE i \in Owners(f)
  <2>1. Written(OwnerUnsigned(f, v), a) = Written(OwnerUnsigned(f, u), b)
    BY <1>1, <1>3, ProposalShape, OwnerStageOf
  <2>2. Len(OwnerUnsigned(f, v)) = Len(OwnerUnsigned(f, u))
    BY <1>2, <2>1, SameBytesSameKinds
  <2>3. v = u
    BY <1>2, <2>2
  <2>. QED BY <2>1, <2>3, SameLayoutSameValues, ProposalWrittenBefore
<1>4. CASE i \notin Owners(f)
  <2>1. Stages(f)[i].unsigned[u] = CRCouncilMemberUnsigned(f, u)
    BY <1>4, ProposalShape, MemberStageOf
  <2>2. /\ IsLayout(CRCouncilMemberUnsigned(f, u)) /\ Len(Cosigned(f)) \in Nat
        /\ Len(CRCouncilMemberUnsigned(f, u)) = Len(OwnerUnsigned(f, u)) + 2 + Len(Cosigned(f))
    BY MemberLayout
  <2>3. Len(OwnerUnsigned(f, v)) = Len(CRCouncilMemberUnsigned(f, u))
    BY <1>1, <1>2, <2>1, <2>2, SameBytesSameKinds
  <2>. QED BY <1>2, <2>2, <2>3
<1>. QED BY <1>3, <1>4

(***************************************************************************)
(* The tracking payload: the owner, a new owner, the secretary general.    *)
(***************************************************************************)
TrackingMembers(v) ==
  {"proposalHash", "messageHash", "stage", "ownerPubKey", "newOwnerPubKey"}
  \cup (IF v = 1 THEN {"messageData"} ELSE {})

LEMMA TrackingOwnerLayout ==
  ASSUME NEW v \in 0..1
  PROVE  LET own == TrackingOwnerUnsigned(v)
         IN  /\ IsLayout(own) /\ Len(own) = 5 + v /\ MembersOf(own) = TrackingMembers(v)
             /\ own[3][1] = IF v = 1 THEN "VarBytes" ELSE "Uint8"
<1> DEFINE own == TrackingOwnerUnsigned(v)
           head == <<Hash256("proposalHash"), Hash256("messageHash")>>
           text == When(v >= 1, <<VarBytes("messageData")>>)
           tail == <<Uint8("stage"), VarBytes("ownerPubKey"), VarBytes("newOwnerPubKey")>>
           front == head \o text
<1>1. IsLayout(head) /\ Len(head) = 2 /\ MembersOf(head) = {"proposalHash", "messageHash"}
  <2>1. /\ IsLayout(head) /\ Len(head) = 2
        /\ MembersOf(head) = {Hash256("proposalHash")[2], Hash256("messageHash")[2]} \ {Unset}
    BY LayoutOfTwo
  <2> HIDE DEF head
  <2>. QED BY <2>1, CallMembers DEF Unset
<1>2. /\ IsLayout(tail) /\ Len(tail) = 3 /\ MembersOf(tail) = {"stage", "ownerPubKey", "newOwnerPubKey"}
      /\ tail[1] = Uint8("stage")
  <2>1. /\ IsLayout(tail) /\ Len(tail) = 3 /\ tail[1] = Uint8("stage")
        /\ MembersOf(tail) = {Uint8("stage")[2], VarBytes("ownerPubKey")[2], VarBytes("newOwnerPubKey")[2]} \ {Unset}
    BY LayoutOfThree
  <2> HIDE DEF tail
  <2>. QED BY <2>1, CallMembers DEF Unset
<1>3. /\ IsLayout(text) /\ Len(text) = v /\ MembersOf(text) = IF v = 1 THEN {"messageData"} ELSE {}
      /\ v = 1 => text[1] = VarBytes("messageData")
  <2>1. CASE v = 1
    <3>1. text = <<VarBytes("messageData")>>
      BY <2>1 DEF When
    <3>2. VarBytes("messageData")[2] = "messageData" /\ "messageData" # Unset
      BY CallMembers DEF Unset
    <3> HIDE DEF text
    <3>. QED BY <2>1, <3>1, <3>2, LayoutOfOne
  <2>2. CASE v = 0
    <3>1. text = <<>>
      BY <2>2 DEF When
    <3> HIDE DEF text
    <3>. QED BY <2>2, <3>1, LayoutOfNone
  <2>. QED BY <2>1, <2>2
<1>4. own = front \o tail
  BY DEF TrackingOwnerUnsigned
<1> HIDE DEF own, head, text, tail
<1>5. /\ IsLayout(front) /\ Len(front) = 2 + v
      /\ MembersOf(front) = MembersOf(head) \cup MembersOf(text)
      /\ v = 1 => front[3] = VarBytes("messageData")
  <2>1. /\ IsLayout(front) /\ Len(front) = Len(head) + Len(text)
        /\ MembersOf(front) = MembersOf(head) \cup MembersOf(text)
        /\ \A n \in 1..Len(text) : front[Len(head) + n] = text[n]
    BY <1>1, <1>3, LayoutConcat
  <2> HIDE DEF front
  <2>. QED BY <1>1, <1>3, <2>1
<1> HIDE DEF front
<1> DEFINE all == front \o tail
<1>6. /\ IsLayout(all) /\ Len(all) = Len(front) + Len(tail)
      /\ MembersOf(all) = MembersOf(front) \cup MembersOf(tail)
      /\ \A n \in 1..Len(front) : all[n] = front[n]
      /\ \A n \in 1..Len(tail) : all[Len(front) + n] = tail[n]
  <2>1. IsLayout(front) /\ IsLayout(tail)
    BY <1>2, <1>5
  <2>. QED BY ONLY <2>1, LayoutConcat
<1> HIDE DEF all
<1>7. all[3] = IF v = 1 THEN VarBytes("messageData") ELSE Uint8("stage")
  BY <1>2, <1>5, <1>6
<1>8. all[3][1] = IF v = 1 THEN "VarBytes" ELSE "Uint8"
  BY <1>7 DEF VarBytes, Uint8
<1>9. MembersOf(all) = TrackingMembers(v)
  BY <1>1, <1>2, <1>3, <1>5, <1>6 DEF TrackingMembers
<1>. QED BY <1>2, <1>4, <1>5, <1>6, <1>8, <1>9 DEF own, all

\* The new owner signs the owner's signature too, the secretary general both.
LEMMA TrackingNewOwnerLayout ==
  ASSUME NEW v \in 0..1
  PROVE  LET own == TrackingOwnerUnsigned(v)
             new == TrackingNewOwnerUnsigned(v)
         IN  /\ IsLayout(new) /\ Len(new) = 6 + v /\ MembersOf(new) = TrackingMembers(v) \cup {"ownerSign"}
             /\ \A n \in 1..(5 + v) : new[n] = own[n]
             /\ new[6 + v] = VarBytes("ownerSign")
<1> DEFINE own == TrackingOwnerUnsigned(v)
           sig == VarBytes("ownerSign")
           new == own \o <<sig>>
<1>1. IsLayout(own) /\ Len(own) = 5 + v /\ MembersOf(own) = TrackingMembers(v)
  BY TrackingOwnerLayout
<1>2. sig[2] = "ownerSign"
  BY CallMembers
<1>3. TrackingNewOwnerUnsigned(v) = new
  BY DEF TrackingNewOwnerUnsigned
<1> HIDE DEF own, sig
<1>4. sig[2] # Unset
  BY <1>2 DEF Unset
<1>5. /\ IsLayout(new) /\ Len(new) = Len(own) + 1 /\ Len(own) \in Nat
      /\ MembersOf(new) = MembersOf(own) \cup {sig[2]}
      /\ \A n \in 1..Len(own) : new[n] = own[n]
      /\ new[Len(own) + 1] = sig
  BY <1>1, <1>4, LayoutAppend, Zenon
<1> HIDE DEF new
<1>. QED BY <1>1, <1>2, <1>3, <1>5 DEF own, sig

LEMMA TrackingSecretaryLayout ==
  ASSUME NEW v \in 0..1
  PROVE  LET new == TrackingNewOwnerUnsigned(v)
             all == TrackingSecretaryUnsigned(v)
         IN  /\ IsLayout(all) /\ Len(all) = 9 + 2 * v
             /\ MembersOf(all) = TrackingMembers(v) \cup
                  {"ownerSign", "newOwnerSign", "type", "secretaryGeneralOpinionHash"}
                  \cup (IF v = 1 THEN {"secretaryGeneralOpinionData"} ELSE {})
             /\ \A n \in 1..(6 + v) : all[n] = new[n]
             /\ all[7 + v] = VarBytes("newOwnerSign")
<1> DEFINE new == TrackingNewOwnerUnsigned(v)
           mid == <<VarBytes("newOwnerSign"), Uint8("type"), Hash256("secretaryGeneralOpinionHash")>>
           text == When(v >= 1, <<VarBytes("secretaryGeneralOpinionData")>>)
           front == new \o mid
           all == front \o text
<1>1. IsLayout(new) /\ Len(new) = 6 + v /\ MembersOf(new) = TrackingMembers(v) \cup {"ownerSign"}
  BY TrackingNewOwnerLayout
<1>2. /\ IsLayout(mid) /\ Len(mid) = 3 /\ mid[1] = VarBytes("newOwnerSign")
      /\ MembersOf(mid) = {"newOwnerSign", "type", "secretaryGeneralOpinionHash"}
  <2>1. /\ IsLayout(mid) /\ Len(mid) = 3 /\ mid[1] = VarBytes("newOwnerSign")
        /\ MembersOf(mid) = {VarBytes("newOwnerSign")[2], Uint8("type")[2],
                             Hash256("secretaryGeneralOpinionHash")[2]} \ {Unset}
    BY LayoutOfThree
  <2> HIDE DEF mid
  <2>. QED BY <2>1, CallMembers DEF Unset
<1>3. /\ IsLayout(text) /\ Len(text) = v
      /\ MembersOf(text) = IF v = 1 THEN {"secretaryGeneralOpinionData"} ELSE {}
  <2>1. CASE v = 1
    <3>1. text = <<VarBytes("secretaryGeneralOpinionData")>>
      BY <2>1 DEF When
    <3>2. /\ VarBytes("secretaryGeneralOpinionData")[2] = "secretaryGeneralOpinionData"
          /\ "secretaryGeneralOpinionData" # Unset
      BY CallMembers DEF Unset
    <3> HIDE DEF text
    <3>. QED BY <2>1, <3>1, <3>2, LayoutOfOne
  <2>2. CASE v = 0
    <3>1. text = <<>>
      BY <2>2 DEF When
    <3> HIDE DEF text
    <3>. QED BY <2>2, <3>1, LayoutOfNone
  <2>. QED BY <2>1, <2>2
<1>4. TrackingSecretaryUnsigned(v) = all
  BY DEF TrackingSecretaryUnsigned
<1> HIDE DEF new, mid, text
<1>5. /\ IsLayout(front) /\ Len(front) = Len(new) + Len(mid)
      /\ MembersOf(front) = MembersOf(new) \cup MembersOf(mid)
      /\ \A n \in 1..Len(new) : front[n] = new[n]
      /\ \A n \in 1..Len(mid) : front[Len(new) + n] = mid[n]
  BY <1>1, <1>2, LayoutConcat
<1> HIDE DEF front
<1>6. /\ IsLayout(all) /\ Len(all) = Len(front) + Len(text)
      /\ MembersOf(all) = MembersOf(front) \cup MembersOf(text)
      /\ \A n \in 1..Len(front) : all[n] = front[n]
  BY <1>3, <1>5, LayoutConcat
<1> HIDE DEF all
<1>7. /\ Len(all) = 9 + 2 * v
      /\ \A n \in 1..(6 + v) : all[n] = new[n]
      /\ all[7 + v] = VarBytes("newOwnerSign")
  BY <1>1, <1>2, <1>3, <1>5, <1>6
<1>8. MembersOf(all) = TrackingMembers(v) \cup
        {"ownerSign", "newOwnerSign", "type", "secretaryGeneralOpinionHash"}
        \cup (IF v = 1 THEN {"secretaryGeneralOpinionData"} ELSE {})
  BY <1>1, <1>2, <1>3, <1>5, <1>6
<1>. QED BY <1>4, <1>6, <1>7, <1>8 DEF new

LEMMA TrackingShape ==
  LET S == Stages("tracking")
  IN  /\ Len(S) = 3 /\ DOMAIN S = 1..3
      /\ S[1].sig = "ownerSign" /\ S[2].sig = "newOwnerSign" /\ S[3].sig = "secretaryGeneralSignature"
      /\ S[1].key = "ownerPubKey" /\ S[2].key = "newOwnerPubKey" /\ S[3].key = Unset
      /\ S[1].after = {} /\ S[2].after = {1} /\ S[3].after = {1, 2}
      /\ Creation("tracking").verified = {1, 2} /\ Creation("tracking").present = {3}
      /\ \A v \in 0..1 : /\ S[1].unsigned[v] = TrackingOwnerUnsigned(v)
                         /\ S[2].unsigned[v] = TrackingNewOwnerUnsigned(v)
                         /\ S[3].unsigned[v] = TrackingSecretaryUnsigned(v)
<1>1. Creation("tracking") = CreateProposalTrackingTransaction
  BY DEF Creation, ProposalFlows
<1>. QED BY <1>1 DEF Stages, CreateProposalTrackingTransaction, Created, Stage,
     ProposalTrackingOwnerDigest, ProposalTrackingNewOwnerDigest, ProposalTrackingSecretaryDigest

\* A digest covers a signature of the tracking payload only if it is verified.
LEMMA TrackingCovers ==
  ASSUME NEW i \in DOMAIN Stages("tracking"), NEW v \in 0..1, NEW j \in 1..2,
         Stages("tracking")[j].sig \in MembersOf(Stages("tracking")[i].unsigned[v])
  PROVE  j \in Stages("tracking")[i].after
<1>1. Stages("tracking")[j].sig \in {"ownerSign", "newOwnerSign"}
  BY TrackingShape
<1>2. CASE i = 1
  BY <1>1, <1>2, TrackingShape, TrackingOwnerLayout DEF TrackingMembers
<1>3. CASE i = 2
  <2>1. Stages("tracking")[j].sig \in TrackingMembers(v) \cup {"ownerSign"}
    BY <1>3, TrackingShape, TrackingNewOwnerLayout
  <2>2. Stages("tracking")[j].sig = "ownerSign"
    BY <1>1, <2>1 DEF TrackingMembers
  <2>3. j = 1
    BY <2>2, TrackingShape
  <2>. QED BY <1>3, <2>3, TrackingShape
<1>4. CASE i = 3
  BY <1>4, TrackingShape
<1>. QED BY <1>2, <1>3, <1>4, TrackingShape

\* What comes before a verified signature of the tracking payload is signed by it.
LEMMA TrackingWrittenBefore ==
  ASSUME NEW v \in 0..1, NEW j \in 1..2, NEW m \in WrittenBefore("tracking", j, v)
  PROVE  LET l == Stages("tracking")[j].unsigned[v] IN \E n \in DOMAIN l : m = l[n][2]
<1> DEFINE own == TrackingOwnerUnsigned(v)
           new == TrackingNewOwnerUnsigned(v)
           all == TrackingSecretaryUnsigned(v)
<1>1. Stages("tracking")[Len(Stages("tracking"))].unsigned[v] = all
  BY TrackingShape
<1>2. PICK n \in DOMAIN all : m = all[n][2] /\ \A k \in 1..n : all[k][2] # Stages("tracking")[j].sig
  BY <1>1 DEF WrittenBefore
<1>3. /\ DOMAIN own = 1..(5 + v) /\ DOMAIN new = 1..(6 + v) /\ DOMAIN all = 1..(9 + 2 * v)
      /\ \A k \in 1..(5 + v) : new[k] = own[k]
      /\ \A k \in 1..(6 + v) : all[k] = new[k]
      /\ new[6 + v] = VarBytes("ownerSign") /\ all[7 + v] = VarBytes("newOwnerSign")
  <2>1. IsLayout(own) /\ IsLayout(new) /\ IsLayout(all)
    BY TrackingOwnerLayout, TrackingNewOwnerLayout, TrackingSecretaryLayout
  <2>2. DOMAIN own = 1..Len(own) /\ DOMAIN new = 1..Len(new) /\ DOMAIN all = 1..Len(all)
    BY <2>1 DEF IsLayout
  <2>. QED BY <2>2, TrackingOwnerLayout, TrackingNewOwnerLayout, TrackingSecretaryLayout
<1>4. VarBytes("ownerSign")[2] = "ownerSign" /\ VarBytes("newOwnerSign")[2] = "newOwnerSign"
  BY CallMembers
<1>5. /\ Stages("tracking")[1].sig = "ownerSign" /\ Stages("tracking")[2].sig = "newOwnerSign"
      /\ Stages("tracking")[1].unsigned[v] = own /\ Stages("tracking")[2].unsigned[v] = new
  BY TrackingShape
<1> HIDE DEF own, new, all
<1>6. CASE j = 1
  <2>1. all[6 + v][2] = "ownerSign"
    BY <1>3, <1>4
  <2>2. ~(6 + v \in 1..n)
    BY <1>2, <1>5, <1>6, <2>1
  <2>3. n \in 1..(5 + v)
    BY <1>2, <1>3, <2>2
  <2>4. n \in DOMAIN own /\ m = own[n][2]
    BY <1>2, <1>3, <2>3
  <2>. QED BY <1>5, <1>6, <2>4
<1>7. CASE j = 2
  <2>1. all[7 + v][2] = "newOwnerSign"
    BY <1>3, <1>4
  <2>2. ~(7 + v \in 1..n)
    BY <1>2, <1>5, <1>7, <2>1
  <2>3. n \in 1..(6 + v)
    BY <1>2, <1>3, <2>2
  <2>4. n \in DOMAIN new /\ m = new[n][2]
    BY <1>2, <1>3, <2>3
  <2>. QED BY <1>5, <1>7, <2>4
<1>. QED BY <1>6, <1>7

\* The bytes that an owner or a new owner of a tracking payload signs have one
\* reading.  The owner's newer version is as long as the new owner's older one;
\* their third members have different kinds.
LEMMA TrackingBytes ==
  ASSUME NEW i \in DOMAIN Stages("tracking"), NEW j \in 1..2, NEW v \in 0..1, NEW u \in 0..1, NEW a, NEW b,
         Written(Stages("tracking")[j].unsigned[v], a) = Written(Stages("tracking")[i].unsigned[u], b)
  PROVE  v = u /\ \A m \in WrittenBefore("tracking", j, v) : a[m] = b[m]
<1> DEFINE lay(s, x) == Stages("tracking")[s].unsigned[x]
<1>1. /\ \A x \in 0..1 : lay(1, x) = TrackingOwnerUnsigned(x) /\ lay(2, x) = TrackingNewOwnerUnsigned(x)
                         /\ lay(3, x) = TrackingSecretaryUnsigned(x)
      /\ i \in 1..3
  BY TrackingShape
<1> HIDE DEF lay
<1>2. \A x \in 0..1 : /\ IsLayout(lay(1, x)) /\ Len(lay(1, x)) = 5 + x
                      /\ lay(1, x)[3][1] = IF x = 1 THEN "VarBytes" ELSE "Uint8"
  BY <1>1, TrackingOwnerLayout
<1>3. \A x \in 0..1 : /\ IsLayout(lay(2, x)) /\ Len(lay(2, x)) = 6 + x
                      /\ lay(2, x)[3][1] = lay(1, x)[3][1]
  <2> TAKE x \in 0..1
  <2>1. IsLayout(lay(2, x)) /\ Len(lay(2, x)) = 6 + x /\ \A n \in 1..(5 + x) : lay(2, x)[n] = lay(1, x)[n]
    BY <1>1, TrackingNewOwnerLayout
  <2>2. 3 \in 1..(5 + x)
    OBVIOUS
  <2>. QED BY <2>1, <2>2
<1>4. \A x \in 0..1 : IsLayout(lay(3, x)) /\ Len(lay(3, x)) = 9 + 2 * x
  BY <1>1, TrackingSecretaryLayout
<1>5. IsLayout(lay(j, v)) /\ IsLayout(lay(i, u))
  BY <1>1, <1>2, <1>3, <1>4
<1>6. Written(lay(j, v), a) = Written(lay(i, u), b)
  BY DEF lay
<1>7. Len(lay(j, v)) = Len(lay(i, u)) /\ \A n \in 1..Len(lay(j, v)) : lay(j, v)[n][1] = lay(i, u)[n][1]
  BY <1>5, <1>6, SameBytesSameKinds
<1>8. lay(j, v)[3][1] = lay(i, u)[3][1]
  <2>1. 3 \in 1..Len(lay(j, v))
    BY <1>2, <1>3
  <2>. QED BY <1>7, <2>1
<1>9. i = j /\ v = u
  <2> DEFINE kind(x) == IF x = 1 THEN "VarBytes" ELSE "Uint8"
  <2>1. ASSUME NEW s \in 1..2, NEW x \in 0..1
        PROVE  Len(lay(s, x)) = 4 + s + x /\ lay(s, x)[3][1] = kind(x)
    <3>1. Len(lay(1, x)) = 5 + x /\ lay(1, x)[3][1] = kind(x)
      BY <1>2
    <3>2. Len(lay(2, x)) = 6 + x /\ lay(2, x)[3][1] = kind(x)
      BY <1>2, <1>3
    <3> HIDE DEF kind
    <3>3. CASE s = 1
      <4>1. Len(lay(s, x)) = 5 + x /\ lay(s, x)[3][1] = kind(x)
        BY <3>1, <3>3, Zenon
      <4>. QED BY <3>3, <4>1
    <3>4. CASE s = 2
      <4>1. Len(lay(s, x)) = 6 + x /\ lay(s, x)[3][1] = kind(x)
        BY <3>2, <3>4, Zenon
      <4>. QED BY <3>4, <4>1
    <3>. QED BY <3>3, <3>4
  <2>2. CASE i = 3
    <3>1. 4 + j + v = 9 + 2 * u
      BY <1>4, <1>7, <2>1, <2>2
    <3>. QED BY <3>1
  <2>3. CASE i \in 1..2
    <3>1. 4 + j + v = 4 + i + u /\ kind(v) = kind(u)
      <4>1. Len(lay(j, v)) = 4 + j + v /\ lay(j, v)[3][1] = kind(v)
        BY <2>1
      <4>2. Len(lay(i, u)) = 4 + i + u /\ lay(i, u)[3][1] = kind(u)
        BY <2>1, <2>3
      <4> HIDE DEF kind
      <4>. QED BY <1>7, <1>8, <4>1, <4>2
    <3>2. v = u
      BY <3>1
    <3>. QED BY <2>3, <3>1, <3>2
  <2>. QED BY <1>1, <2>2, <2>3
<1>10. \A n \in DOMAIN lay(j, v) : a[lay(j, v)[n][2]] = b[lay(j, v)[n][2]]
  BY <1>6, <1>9, SameLayoutSameValues
<1>. QED BY <1>9, <1>10, TrackingWrittenBefore DEF lay

(***************************************************************************)
(* The payloads with one signature.                                        *)
(***************************************************************************)
SingleFlows == AllFlows \ (ProposalFlows \cup {"tracking"})

\* The digest function of each of them.
SingleDigest(f) ==
  CASE f = "review"           -> ProposalReviewDigest
    [] f = "withdraw"         -> ProposalWithdrawDigest
    [] f = "claimNode"        -> CRCouncilMemberClaimNodeDigest
    [] f = "registerCR"       -> GenerateCRInfoPayload
    [] f = "updateCR"         -> GenerateCRInfoPayload
    [] f = "unregisterCR"     -> GenerateUnregisterCRPayload
    [] f = "registerProducer" -> GenerateProducerPayload
    [] f = "cancelProducer"   -> GenerateCancelProducerPayload
    [] f = "claimReward"      -> DPoSV2ClaimRewardDigest
    [] f = "unstake"          -> UnstakeDigest

LEMMA SingleCreation ==
  ASSUME NEW f \in SingleFlows
  PROVE  /\ Creation(f).stages = <<SingleDigest(f)>>
         /\ Creation(f).verified = (IF f \in {"withdraw", "registerCR"} THEN {1} ELSE {})
         /\ Creation(f).present \subseteq {1}
<1> USE DEF Creation, SingleDigest, Created, ProposalFlows
<1>1. CASE f = "review"
  BY <1>1 DEF CreateProposalReviewTransaction
<1>2. CASE f = "withdraw"
  BY <1>2 DEF CreateProposalWithdrawTransaction
<1>3. CASE f = "claimNode"
  BY <1>3 DEF CreateCRCouncilMemberClaimNodeTransaction
<1>4. CASE f = "registerCR"
  BY <1>4 DEF CreateRegisterCRTransaction
<1>5. CASE f = "updateCR"
  BY <1>5 DEF CreateUpdateCRTransaction
<1>6. CASE f = "unregisterCR"
  BY <1>6 DEF CreateUnregisterCRTransaction
<1>7. CASE f = "registerProducer"
  BY <1>7 DEF CreateRegisterProducerTransaction
<1>8. CASE f = "cancelProducer"
  BY <1>8 DEF CreateCancelProducerTransaction
<1>9. CASE f = "claimReward"
  BY <1>9 DEF CreateDPoSV2ClaimRewardTransaction
<1>10. CASE f = "unstake"
  BY <1>10 DEF CreateUnstakeTransaction
<1>. QED BY <1>1, <1>2, <1>3, <1>4, <1>5, <1>6, <1>7, <1>8, <1>9, <1>10 DEF SingleFlows, AllFlows

\* They have one stage, which follows none.
LEMMA SingleShape ==
  ASSUME NEW f \in SingleFlows
  PROVE  Len(Stages(f)) = 1 /\ DOMAIN Stages(f) = {1} /\ Stages(f)[1].after = {}
<1>1. Stages(f) = <<SingleDigest(f)>>
  BY SingleCreation DEF Stages
<1>2. \A s, k, w : Single(s, k, w).after = {}
  BY DEF Single, Stage
<1>3. SingleDigest(f).after = {}
  BY <1>2 DEF SingleFlows, AllFlows, ProposalFlows, SingleDigest, ProposalReviewDigest, ProposalWithdrawDigest,
     CRCouncilMemberClaimNodeDigest, GenerateCRInfoPayload, GenerateUnregisterCRPayload, GenerateProducerPayload,
     GenerateCancelProducerPayload, DPoSV2ClaimRewardDigest, UnstakeDigest
<1>. QED BY <1>1, <1>3

\* The members that a layout has in front of its last call.
LEMMA FrontMembers ==
  ASSUME NEW a, NEW b, IsLayout(a), IsLayout(b), Len(b) > 0, NEW m, m \notin MembersOf(a),
         \A n \in 1..(Len(b) - 1) : b[n][2] # m, m # Unset
  PROVE  m \notin MembersOf(SubSeq(a \o b, 1, Len(a \o b) - 1))
<1> DEFINE s == a \o b
           t == SubSeq(s, 1, Len(s) - 1)
<1>1. /\ IsLayout(s) /\ Len(s) = Len(a) + Len(b) /\ Len(a) \in Nat /\ Len(b) \in Nat
      /\ \A i \in 1..Len(a) : s[i] = a[i]
      /\ \A i \in 1..Len(b) : s[Len(a) + i] = b[i]
  BY LayoutConcat
<1> HIDE DEF s
<1>2. DOMAIN t = 1..(Len(s) - 1) /\ \A n \in 1..(Len(s) - 1) : t[n] = s[n]
  <2>1. PICK S : s \in Seq(S)
    BY <1>1 DEF IsLayout
  <2>. QED BY <1>1, <2>1
<1> HIDE DEF t
<1>3. DOMAIN a = 1..Len(a)
  BY DEF IsLayout
<1>4. ASSUME NEW n \in DOMAIN t PROVE t[n][2] # m
  <2>1. CASE n <= Len(a)
    <3>1. n \in DOMAIN a /\ t[n] = a[n]
      BY <1>1, <1>2, <1>3, <2>1
    <3>. QED BY <3>1 DEF MembersOf
  <2>2. CASE n > Len(a)
    <3>1. n - Len(a) \in 1..(Len(b) - 1) /\ t[n] = b[n - Len(a)]
      <4>1. n - Len(a) \in 1..Len(b) /\ n = Len(a) + (n - Len(a)) /\ n - Len(a) <= Len(b) - 1
        BY <1>1, <1>2, <2>2
      <4>2. s[n] = b[n - Len(a)]
        BY <1>1, <4>1
      <4>. QED BY <1>1, <1>2, <4>1, <4>2
    <3>. QED BY <3>1
  <2>. QED BY <1>1, <1>2, <2>1, <2>2
<1>. QED BY <1>4 DEF MembersOf, t, s

\* The two that are verified sign everything but the signature.
LEMMA WithdrawUnsigned ==
  ASSUME NEW v \in 0..1
  PROVE  /\ ProposalWithdrawDigest.sig = "signature" /\ ProposalWithdrawDigest.key = "ownerPubkey"
         /\ "signature" \notin MembersOf(ProposalWithdrawDigest.unsigned[v])
<1> DEFINE head == <<Hash256("proposalHash"), VarBytes("ownerPubkey")>>
           more == When(v = 1, <<Hash168("recipient"), Uint64("amount")>>)
           a == head \o more
           b == <<VarBytes("signature")>>
           wire == CRCProposalWithdraw(v).Serialize
<1>1. IsLayout(head) /\ "signature" \notin MembersOf(head)
  BY LayoutOfTwo, CallMembers
<1>2. IsLayout(more) /\ "signature" \notin MembersOf(more)
  BY LayoutOfTwo, LayoutOfNone, CallMembers DEF When
<1>3. IsLayout(b) /\ Len(b) = 1
  BY LayoutOfOne
<1>4. wire = a \o b
  BY DEF CRCProposalWithdraw, Uniform
<1>5. /\ ProposalWithdrawDigest.sig = "signature" /\ ProposalWithdrawDigest.key = "ownerPubkey"
      /\ ProposalWithdrawDigest.unsigned[v] = SubSeq(wire, 1, Len(wire) - 1)
  BY DEF ProposalWithdrawDigest, Single, Stage
<1> HIDE DEF head, more, b, wire
<1>6. IsLayout(a) /\ "signature" \notin MembersOf(a)
  BY <1>1, <1>2, LayoutConcat
<1> HIDE DEF a
<1>7. "signature" \notin MembersOf(SubSeq(a \o b, 1, Len(a \o b) - 1))
  <2>1. Len(b) > 0 /\ \A n \in 1..(Len(b) - 1) : b[n][2] # "signature"
    BY <1>3
  <2>2. "signature" # Unset
    BY DEF Unset
  <2>. QED BY <1>3, <1>6, <2>1, <2>2, FrontMembers, Zenon
<1>. QED BY <1>4, <1>5, <1>7

LEMMA CRInfoUnsigned ==
  ASSUME NEW v \in 0..1
  PROVE  /\ GenerateCRInfoPayload.sig = "signature" /\ GenerateCRInfoPayload.key = "code"
         /\ "signature" \notin MembersOf(GenerateCRInfoPayload.unsigned[v])
<1> DEFINE head == <<VarBytes("code"), Hash168("cid")>>
           more == When(v > CRInfoVersion, <<Hash168("did")>>)
           a == head \o more
           b == <<VarBytes("nickName"), VarBytes("url"), Uint64("location"), VarBytes("signature")>>
           wire == CRInfo(v).Serialize
<1>1. IsLayout(head) /\ "signature" \notin MembersOf(head)
  BY LayoutOfTwo, CallMembers
<1>2. IsLayout(more) /\ "signature" \notin MembersOf(more)
  BY LayoutOfOne, LayoutOfNone, CallMembers DEF When
<1>3. /\ IsLayout(b) /\ Len(b) = 4
      /\ b[1] = VarBytes("nickName") /\ b[2] = VarBytes("url") /\ b[3] = Uint64("location")
  BY LayoutOfFour
<1>4. wire = a \o b
  BY DEF CRInfo, Uniform
<1>5. /\ GenerateCRInfoPayload.sig = "signature" /\ GenerateCRInfoPayload.key = "code"
      /\ GenerateCRInfoPayload.unsigned[v] = SubSeq(wire, 1, Len(wire) - 1)
  BY DEF GenerateCRInfoPayload, Single, Stage
<1> HIDE DEF head, more, b, wire
<1>6. IsLayout(a) /\ "signature" \notin MembersOf(a)
  BY <1>1, <1>2, LayoutConcat
<1> HIDE DEF a
<1>7. "signature" \notin MembersOf(SubSeq(a \o b, 1, Len(a \o b) - 1))
  <2>1. Len(b) > 0 /\ \A n \in 1..(Len(b) - 1) : b[n][2] # "signature"
    BY <1>3, CallMembers
  <2>2. "signature" # Unset
    BY DEF Unset
  <2>. QED BY <1>3, <1>6, <2>1, <2>2, FrontMembers, Zenon
<1>. QED BY <1>4, <1>5, <1>7

LEMMA SingleVerifiable ==
  ASSUME NEW f \in SingleFlows, NEW j \in Verifiable(f)
  PROVE  j = 1 /\ f \in {"withdraw", "registerCR"}
<1>1. f \in AllFlows
  BY DEF SingleFlows
<1>. QED BY <1>1, VerifiableIsVerified, SingleCreation

LEMMA SingleCovers ==
  ASSUME NEW f \in SingleFlows, NEW i \in DOMAIN Stages(f), NEW v \in 0..1, NEW j \in Verifiable(f)
  PROVE  Stages(f)[j].sig \notin MembersOf(Stages(f)[i].unsigned[v])
<1>1. i = 1 /\ j = 1 /\ f \in {"withdraw", "registerCR"}
  BY SingleVerifiable, SingleShape
<1>2. Stages(f)[1] = SingleDigest(f)
  BY SingleCreation DEF Stages
<1>3. CASE f = "withdraw"
  BY <1>1, <1>2, <1>3, WithdrawUnsigned DEF SingleDigest
<1>4. CASE f = "registerCR"
  BY <1>1, <1>2, <1>4, CRInfoUnsigned DEF SingleDigest
<1>. QED BY <1>1, <1>3, <1>4

(***************************************************************************)
(* All kinds of documents.                                                 *)
(***************************************************************************)
LEMMA StagesDomain ==
  ASSUME NEW f \in AllFlows
  PROVE  Len(Stages(f)) \in 1..3 /\ DOMAIN Stages(f) = 1..Len(Stages(f))
<1>1. CASE f \in ProposalFlows
  BY <1>1, ProposalShape
<1>2. CASE f = "tracking"
  BY <1>2, TrackingShape
<1>3. CASE f \in SingleFlows
  BY <1>3, SingleShape
<1>. QED BY <1>1, <1>2, <1>3 DEF SingleFlows

\* The digest functions verify what they cover.
LEMMA CoveredIsVerified ==
  ASSUME NEW f \in AllFlows, NEW i \in DOMAIN Stages(f), NEW v \in 0..1, NEW j \in Verifiable(f),
         Stages(f)[j].sig \in MembersOf(Stages(f)[i].unsigned[v])
  PROVE  j \in Stages(f)[i].after
<1>0. j \in Creation(f).verified
  BY VerifiableIsVerified
<1>1. CASE f \in ProposalFlows
  <2>1. j \in Owners(f)
    BY <1>0, <1>1, ProposalShape
  <2>. QED BY <1>1, <2>1, ProposalCovers
<1>2. CASE f = "tracking"
  <2>1. j \in 1..2
    BY <1>0, <1>2, TrackingShape
  <2>. QED BY <1>2, <2>1, TrackingCovers
<1>3. CASE f \in SingleFlows
  BY <1>3, SingleCovers
<1>. QED BY <1>1, <1>2, <1>3 DEF SingleFlows

\* Signed bytes have one reading.
LEMMA OneReading ==
  ASSUME NEW f \in AllFlows, NEW i \in DOMAIN Stages(f), NEW j \in Verifiable(f),
         NEW v \in 0..1, NEW u \in 0..1, f \in SingleFlows => v = u, NEW a, NEW b,
         Written(Stages(f)[j].unsigned[v], a) = Written(Stages(f)[i].unsigned[u], b)
  PROVE  v = u /\ \A m \in WrittenBefore(f, j, v) : a[m] = b[m]
<1>0. j \in Creation(f).verified
  BY VerifiableIsVerified
<1>1. CASE f \in ProposalFlows
  <2>1. j \in Owners(f)
    BY <1>0, <1>1, ProposalShape
  <2>. QED BY <1>1, <2>1, ProposalBytes
<1>2. CASE f = "tracking"
  <2>1. j \in 1..2
    BY <1>0, <1>2, TrackingShape
  <2>. QED BY <1>2, <2>1, TrackingBytes
<1>3. CASE f \in SingleFlows
  <2>1. i = 1 /\ j = 1 /\ Len(Stages(f)) = 1 /\ v = u
    BY <1>3, SingleVerifiable, SingleShape
  <2> DEFINE l == Stages(f)[1].unsigned[v]
  <2>2. \A n \in DOMAIN l : a[l[n][2]] = b[l[n][2]]
    BY <2>1, SameLayoutSameValues
  <2>3. \A m \in WrittenBefore(f, j, v) : \E n \in DOMAIN l : m = l[n][2]
    BY <2>1 DEF WrittenBefore
  <2> HIDE DEF l
  <2>. QED BY <2>1, <2>2, <2>3
<1>. QED BY <1>1, <1>2, <1>3 DEF SingleFlows

LEMMA VersionRange ==
  ASSUME NEW f, NEW i, NEW val
  PROVE  Version(f, i, val) \in 0..1
BY DEF Version

\* The documents with one verified signature have one version.
LEMMA SingleVersion ==
  ASSUME NEW f \in {"withdraw", "registerCR"}, NEW i, NEW val
  PROVE  Version(f, i, val) = 1
BY DEF Version, ProposalFlows

(***************************************************************************)
(* Where the signatures and the payloads come from.                        *)
(***************************************************************************)
RecordsInv ==
  /\ \A g \in signed : /\ g.flow = flow /\ g.stage \in DOMAIN Stages(flow) /\ g.key \in Keys
                       /\ g.version = Version(flow, g.stage, g.doc)
  /\ \A c \in created : c.version = Version(flow, Last(flow), c.doc)

AgreementInv == IInv /\ RecordsInv /\ SignedInOrder

\* The signatures that a digest covers when it is computed were made.
LEMMA AcceptedInOrder ==
  ASSUME SignaturesIssued, NEW i \in DOMAIN Stages(flow), Accepts(flow, i, doc), NEW j \in Verifiable(flow),
         doc[Stages(flow)[j].key] # Unset,
         Stages(flow)[j].sig \in MembersOf(Stages(flow)[i].unsigned[Version(flow, i, doc)])
  PROVE  <<doc[Stages(flow)[j].key], Digest(flow, j, Version(flow, i, doc), doc)>> \in Issued
<1> DEFINE sig == Stages(flow)[j].sig
           v == Version(flow, i, doc)
           pair == <<doc[Stages(flow)[j].key], Digest(flow, j, v, doc)>>
<1>1. flow \in AllFlows
  BY FlowsAssumption DEF SignaturesIssued
<1>2. i # Last(flow)
  BY <1>1, StagesDomain DEF Last
<1>3. v \in 0..1
  BY VersionRange
<1>4. j \in Stages(flow)[i].after
  BY <1>1, <1>3, CoveredIsVerified
<1>5. Verifies(flow, j, v, doc)
  BY <1>2, <1>4 DEF Accepts
<1>6. doc[sig] = pair
  BY <1>5 DEF Verifies, Has
<1>7. pair # NoSig
  BY DEF NoSig
<1>8. sig \in SigMembers(flow)
  BY VerifiableIsStage
<1>. QED BY <1>6, <1>7, <1>8 DEF SignaturesIssued

LEMMA InitAgreement == Init => AgreementInv
<1>1. Init => signed = {} /\ created = {}
  BY DEF Init
<1>2. signed = {} /\ created = {} => RecordsInv /\ SignedInOrder
  BY DEF RecordsInv, SignedInOrder
<1>. QED BY <1>1, <1>2, InitIInv DEF AgreementInv

\* What the records say does not depend on the document as it is now.
LEMMA RecordsStay ==
  ASSUME RecordsInv, SignedInOrder, flow' = flow, signed' = signed, created' = created
  PROVE  RecordsInv' /\ SignedInOrder'
<1>1. Issued' = Issued
  BY DEF Issued
<1>2. RecordsInv'
  BY DEF RecordsInv
<1>3. SignedInOrder'
  BY <1>1 DEF SignedInOrder
<1>. QED BY <1>2, <1>3

LEMMA SignRecords ==
  ASSUME AgreementInv, NEW i \in DOMAIN Stages(flow), NEW k \in Keys, Sign(i, k)
  PROVE  RecordsInv' /\ SignedInOrder'
<1> DEFINE g == [flow |-> flow, stage |-> i, key |-> k, version |-> Version(flow, i, doc), doc |-> doc]
<1>1. /\ flow' = flow /\ created' = created /\ signed' = signed \cup {g}
      /\ Accepts(flow, i, doc)
  BY DEF Sign
<1>2. Issued \subseteq Issued'
  BY <1>1, IssuedGrows
<1>3. /\ g.flow = flow /\ g.stage = i /\ g.key = k /\ g.doc = doc
      /\ g.version = Version(flow, i, doc)
  OBVIOUS
<1>4. RecordsInv /\ SignedInOrder /\ SignaturesIssued
  BY DEF AgreementInv, IInv
<1> HIDE DEF g
<1>5. RecordsInv'
  BY <1>1, <1>3, <1>4 DEF RecordsInv
<1>6. ASSUME NEW h \in signed', NEW j \in Verifiable(flow),
             Stages(flow)[j].sig \in MembersOf(Stages(flow)[h.stage].unsigned[h.version]),
             h.doc[Stages(flow)[j].key] # Unset
      PROVE  <<h.doc[Stages(flow)[j].key], Digest(flow, j, h.version, h.doc)>> \in Issued'
  <2>1. CASE h \in signed
    BY <1>2, <1>4, <1>6, <2>1 DEF SignedInOrder
  <2>2. CASE h = g
    <3>1. <<doc[Stages(flow)[j].key], Digest(flow, j, Version(flow, i, doc), doc)>> \in Issued
      BY <1>1, <1>3, <1>4, <1>6, <2>2, AcceptedInOrder
    <3>. QED BY <1>2, <1>3, <2>2, <3>1
  <2>. QED BY <1>1, <2>1, <2>2
<1>7. SignedInOrder'
  BY <1>1, <1>6 DEF SignedInOrder
<1>. QED BY <1>5, <1>7

LEMMA NextAgreement == AgreementInv /\ [Next]_vars => AgreementInv'
<1> SUFFICES ASSUME AgreementInv, [Next]_vars PROVE RecordsInv' /\ SignedInOrder'
  BY NextIInv DEF AgreementInv
<1>0. RecordsInv /\ SignedInOrder
  BY DEF AgreementInv
<1>1. CASE EditMember
  BY <1>0, <1>1, RecordsStay DEF EditMember, Edit
<1>2. CASE EditSignature
  BY <1>0, <1>2, RecordsStay DEF EditSignature, Edit
<1>3. CASE \E i \in DOMAIN Stages(flow), k \in Keys : Sign(i, k)
  BY <1>3, SignRecords
<1>4. CASE Create
  <2>1. /\ flow' = flow /\ signed' = signed
        /\ created' = created \cup {[version |-> Version(flow, Last(flow), doc), doc |-> doc]}
    BY <1>4 DEF Create
  <2>2. Issued' = Issued
    BY <2>1 DEF Issued
  <2>3. RecordsInv'
    BY <1>0, <2>1 DEF RecordsInv
  <2>4. SignedInOrder'
    BY <1>0, <2>1, <2>2 DEF SignedInOrder
  <2>. QED BY <2>3, <2>4
<1>5. CASE UNCHANGED vars
  BY <1>0, <1>5, RecordsStay DEF vars
<1>. QED BY <1>1, <1>2, <1>3, <1>4, <1>5 DEF Next

\* Nobody signs over a signature that was not given (IsValid...Unsigned, called by
\* the digest functions).
THEOREM SpecSignedInOrder == Spec => []SignedInOrder
<1>1. AgreementInv => SignedInOrder
  BY DEF AgreementInv
<1>. QED BY <1>1, InitAgreement, NextAgreement, PTL DEF Spec

\* The signature that the Create function found was made for this content: its
\* bytes can only be read one way.
LEMMA AgreedReading == AgreementInv => AgreedContent
<1> SUFFICES ASSUME AgreementInv, NEW c \in created, NEW j \in Verifiable(flow),
                    c.doc[Stages(flow)[j].key] # Unset
             PROVE  \E g \in signed :
                      /\ g.key = c.doc[Stages(flow)[j].key] /\ g.version = c.version
                      /\ \A m \in WrittenBefore(flow, j, c.version) : g.doc[m] = c.doc[m]
  BY DEF AgreedContent
<1> DEFINE key == c.doc[Stages(flow)[j].key]
<1>0. flow \in AllFlows
  BY FlowsAssumption DEF AgreementInv, IInv, SignaturesIssued
<1>1. <<key, Digest(flow, j, c.version, c.doc)>> \in Issued
  BY DEF AgreementInv, IInv, CreatedWasAgreed
<1>2. PICK g \in signed : SigOf(g) = <<key, Digest(flow, j, c.version, c.doc)>>
  BY <1>1 DEF Issued
<1>3. /\ g.flow = flow /\ g.stage \in DOMAIN Stages(flow)
      /\ g.version = Version(flow, g.stage, g.doc)
      /\ c.version = Version(flow, Last(flow), c.doc)
  BY DEF AgreementInv, RecordsInv
<1>4. g.version \in 0..1 /\ c.version \in 0..1
  BY <1>3, VersionRange
<1>5. g.key = key
  BY <1>2 DEF SigOf
<1>6. Written(Stages(flow)[j].unsigned[c.version], c.doc) =
        Written(Stages(flow)[g.stage].unsigned[g.version], g.doc)
  BY <1>2, <1>3 DEF SigOf, Digest
<1>7. flow \in SingleFlows => c.version = g.version
  BY <1>3, SingleVerifiable, SingleVersion
<1>8. c.version = g.version /\ \A m \in WrittenBefore(flow, j, c.version) : c.doc[m] = g.doc[m]
  <2>1. ASSUME NEW i, NEW v, NEW u, NEW a, NEW b, i = g.stage, v = c.version, u = g.version,
               a = c.doc, b = g.doc
        PROVE  v = u /\ \A m \in WrittenBefore(flow, j, v) : a[m] = b[m]
    <3>1. /\ i \in DOMAIN Stages(flow) /\ v \in 0..1 /\ u \in 0..1
          /\ flow \in SingleFlows => v = u
          /\ Written(Stages(flow)[j].unsigned[v], a) = Written(Stages(flow)[i].unsigned[u], b)
      BY <1>3, <1>4, <1>6, <1>7, <2>1, Zenon
    <3>. QED BY <1>0, <3>1, OneReading, SMTT(60)
  <2>. QED BY <2>1, SMT
<1>. QED BY <1>5, <1>8

\* The parties have seen the payload that gets into the transaction, member by
\* member (SerializeOwnerUnsigned and the functions like it).
THEOREM SpecAgreedContent == Spec => []AgreedContent
BY AgreedReading, InitAgreement, NextAgreement, PTL DEF Spec

(***************************************************************************)
(* The values of the members.                                              *)
(***************************************************************************)
KeyNames ==
  {"ownerPublicKey", "newOwnerPublicKey", "secretaryPublicKey", "ownerPubKey", "newOwnerPubKey",
   "ownerPubkey", "code", "publicKey"}

\* A key is under a name of its own.
LEMMA KeyMembersNamed ==
  ASSUME NEW f \in AllFlows
  PROVE  KeyMembers(f) \subseteq KeyNames
<1>1. CASE f \in ProposalFlows
  <2>1. \A i \in Owners(f) : Verified(f)[i][2] \in KeyNames
    <3>1. CASE f = "changeProposalOwner"
      BY <3>1, VerifiedOf DEF Owners, TwoOwnerFlows, KeyNames
    <3>2. CASE f = "secretaryGeneralElection"
      BY <3>2, VerifiedOf DEF Owners, TwoOwnerFlows, KeyNames
    <3>3. CASE f \in OneOwnerFlows
      BY <3>3, VerifiedOf DEF Owners, OneOwnerFlows, KeyNames
    <3>. QED BY <1>1, <3>1, <3>2, <3>3 DEF OneOwnerFlows, TwoOwnerFlows
  <2>2. \A i \in Owners(f) : Stages(f)[i].key \in KeyNames
    BY <1>1, <2>1, ProposalShape, OwnerStageOf
  <2>3. \A i \in DOMAIN Stages(f) : i \in Owners(f) \/ Stages(f)[i].key = Unset
    BY <1>1, ProposalShape, MemberStageOf
  <2>. QED BY <2>2, <2>3 DEF KeyMembers
<1>2. CASE f = "tracking"
  <2>1. \A i \in DOMAIN Stages(f) : Stages(f)[i].key \in KeyNames \cup {Unset}
    BY <1>2, TrackingShape DEF KeyNames
  <2>. QED BY <2>1 DEF KeyMembers
<1>3. CASE f \in SingleFlows
  <2>1. Stages(f) = <<SingleDigest(f)>>
    BY <1>3, SingleCreation DEF Stages
  <2>2. \A s, k, w : Single(s, k, w).key = k
    BY DEF Single, Stage
  <2>3. SingleDigest(f).key \in KeyNames \cup {Unset}
    BY <1>3, <2>2 DEF SingleFlows, AllFlows, ProposalFlows, SingleDigest, ProposalReviewDigest,
       ProposalWithdrawDigest, CRCouncilMemberClaimNodeDigest, GenerateCRInfoPayload,
       GenerateUnregisterCRPayload, GenerateProducerPayload, GenerateCancelProducerPayload,
       DPoSV2ClaimRewardDigest, UnstakeDigest, KeyNames
  <2>4. \A i \in DOMAIN Stages(f) : Stages(f)[i].key \in KeyNames \cup {Unset}
    BY <2>1, <2>3
  <2>. QED BY <2>4 DEF KeyMembers
<1>. QED BY <1>1, <1>2, <1>3 DEF SingleFlows

\* The host writes the values that belong to the members.
ValuesInv ==
  /\ \A m \in DocMembers(flow) \ SigMembers(flow) : doc[m] \in Values(flow, m)
  /\ edits \in 0..MaxEdits

LEMMA InitValues == Init => ValuesInv
<1> SUFFICES ASSUME Init PROVE ValuesInv
  OBVIOUS
<1> DEFINE c == CHOOSE x \in Contents : TRUE
<1>1. PICK keys, texts : /\ \A m \in KeyMembers(flow) : keys[m] \in Values(flow, m)
                         /\ doc = Draft(flow, c, keys, texts)
  BY DEF Init
<1>2. flow \in AllFlows /\ edits = 0
  BY FlowsAssumption DEF Init
<1>3. c \in Contents
  BY ContentsAssumption
<1> HIDE DEF c
<1>4. KeyMembers(flow) \subseteq KeyNames
  BY <1>2, KeyMembersNamed
<1>5. DOMAIN HashOf = {"draftData", "messageData", "opinionData", "secretaryGeneralOpinionData"}
  BY DEF HashOf
<1>6. KeyNames \cap (DOMAIN HashOf \cup {"type"}) = {} /\ "type" \notin DOMAIN HashOf
  BY <1>5 DEF KeyNames
<1>7. ASSUME NEW m \in DocMembers(flow) \ SigMembers(flow) PROVE doc[m] \in Values(flow, m)
  <2>0. doc[m] = CASE m \in KeyMembers(flow)     -> keys[m]
                   [] m \in DOMAIN HashOf \ texts -> Unset
                   [] m = "type" /\ flow \in ProposalFlows -> flow
                   [] OTHER                      -> c
    BY <1>1 DEF Draft
  <2>1. CASE m \in KeyMembers(flow)
    <3>1. doc[m] = keys[m]
      BY <1>4, <1>6, <2>0, <2>1
    <3>. QED BY <1>1, <2>1, <3>1
  <2>2. CASE m \in DOMAIN HashOf
    <3>1. Values(flow, m) = Contents \cup {Unset}
      BY <1>4, <1>6, <2>2 DEF Values
    <3>2. m \in texts => doc[m] = c
      BY <1>4, <1>6, <2>0, <2>2
    <3>3. m \notin texts => doc[m] = Unset
      BY <1>4, <1>6, <2>0, <2>2
    <3>. QED BY <1>3, <3>1, <3>2, <3>3
  <2>3. CASE m = "type" /\ flow \in ProposalFlows
    <3>1. doc[m] = flow
      BY <1>4, <1>6, <2>0, <2>3
    <3>2. flow \in Values(flow, m)
      BY <1>4, <1>6, <2>3 DEF Values
    <3>. QED BY <3>1, <3>2
  <2>4. CASE m \notin KeyMembers(flow) /\ m \notin DOMAIN HashOf /\ ~(m = "type" /\ flow \in ProposalFlows)
    <3>1. doc[m] = c
      BY <2>0, <2>4
    <3>2. Values(flow, m) = Contents
      BY <2>4 DEF Values, ProposalFlows
    <3>. QED BY <1>3, <3>1, <3>2
  <2>. QED BY <2>1, <2>2, <2>3, <2>4
<1>. QED BY <1>2, <1>7, BoundsAssumption DEF ValuesInv

LEMMA NextValues == SignaturesIssued /\ ValuesInv /\ [Next]_vars => ValuesInv'
<1> SUFFICES ASSUME SignaturesIssued, ValuesInv, [Next]_vars PROVE ValuesInv'
  OBVIOUS
<1>0. DOMAIN doc = DocMembers(flow)
  BY DEF SignaturesIssued
<1>1. ASSUME flow' = flow, edits' \in 0..MaxEdits, NEW k, NEW x, doc' = [doc EXCEPT ![k] = x],
             k \in SigMembers(flow) \/ x \in Values(flow, k)
      PROVE  ValuesInv'
  <2>1. \A m \in DocMembers(flow) \ SigMembers(flow) : doc'[m] \in Values(flow, m)
    <3> TAKE m \in DocMembers(flow) \ SigMembers(flow)
    <3>1. doc[m] \in Values(flow, m) /\ m \in DOMAIN doc
      BY <1>0 DEF ValuesInv
    <3>2. doc'[m] = IF m = k THEN x ELSE doc[m]
      BY <1>1, <3>1
    <3>. QED BY <1>1, <3>1, <3>2
  <2>. QED BY <1>1, <2>1 DEF ValuesInv
<1>2. ASSUME NEW m, NEW x, Edit(m, x) PROVE edits' \in 0..MaxEdits /\ flow' = flow /\ doc' = [doc EXCEPT ![m] = x]
  BY <1>2, BoundsAssumption DEF Edit, ValuesInv
<1>3. CASE EditMember
  BY <1>1, <1>2, <1>3 DEF EditMember
<1>4. CASE EditSignature
  BY <1>1, <1>2, <1>4 DEF EditSignature
<1>5. CASE \E i \in DOMAIN Stages(flow), k \in Keys : Sign(i, k)
  <2>1. PICK i \in DOMAIN Stages(flow), k \in Keys : Sign(i, k)
    BY <1>5
  <2>2. PICK x : doc' = [doc EXCEPT ![Stages(flow)[i].sig] = x]
    BY <2>1 DEF Sign
  <2>3. flow' = flow /\ edits' = edits
    BY <2>1 DEF Sign
  <2>4. Stages(flow)[i].sig \in SigMembers(flow)
    BY DEF SigMembers
  <2>5. edits' \in 0..MaxEdits
    BY <2>3 DEF ValuesInv
  <2>. QED BY <1>1, <2>2, <2>3, <2>4, <2>5
<1>6. CASE Create
  BY <1>6 DEF Create, ValuesInv
<1>7. CASE UNCHANGED vars
  BY <1>7 DEF vars, ValuesInv
<1>. QED BY <1>3, <1>4, <1>5, <1>6, <1>7 DEF Next

TypeInv == AgreementInv /\ ValuesInv

LEMMA InitTypeInv == Init => TypeInv
BY InitAgreement, InitValues DEF TypeInv

LEMMA NextTypeInv == TypeInv /\ [Next]_vars => TypeInv'
BY NextAgreement, NextValues DEF TypeInv, AgreementInv, IInv

LEMMA TypesHold == TypeInv => TypeOK
BY DEF TypeInv, AgreementInv, IInv, SignaturesIssued, RecordsInv, ValuesInv, TypeOK

\* The document keeps its members, each with a value of its own kind, and no
\* signature is in it that nobody made.
THEOREM SpecTypeOK == Spec => []TypeOK
BY InitTypeInv, NextTypeInv, TypesHold, PTL DEF Spec

(***************************************************************************)
(* The texts that are read.                                                *)
(***************************************************************************)
Texts == {"draftData", "messageData", "opinionData", "secretaryGeneralOpinionData"}

LEMMA HashOfTexts == DOMAIN HashOf = Texts
BY DEF HashOf, Texts

\* What is signed of a payload with one signature is part of what is written of it.
LEMMA PrefixMembers ==
  ASSUME NEW s, IsLayout(s)
  PROVE  MembersOf(SubSeq(s, 1, Len(s) - 1)) \subseteq MembersOf(s)
<1> DEFINE t == SubSeq(s, 1, Len(s) - 1)
<1>1. PICK S : s \in Seq(S)
  BY DEF IsLayout
<1>2. DOMAIN t \subseteq DOMAIN s /\ \A n \in DOMAIN t : t[n] = s[n]
  BY <1>1
<1> HIDE DEF t
<1>3. MembersOf(t) \subseteq MembersOf(s)
  BY <1>2 DEF MembersOf
<1>. QED BY <1>3 DEF t

\* A payload with one signature has a text only if it is a review of version 1.
LEMMA ReviewTexts ==
  ASSUME NEW v \in 0..1
  PROVE  LET wire == CRCProposalReview(v).Serialize
         IN  IsLayout(wire) /\ MembersOf(wire) \cap Texts \subseteq (IF v = 1 THEN {"opinionData"} ELSE {})
<1> DEFINE head == <<Hash256("proposalHash"), Uint8("voteResult"), Hash256("opinionHash")>>
           text == When(v >= 1, <<VarBytes("opinionData")>>)
           front == head \o text
           tail == <<Hash168("did"), VarBytes("signature")>>
<1>1. CRCProposalReview(v).Serialize = front \o tail
  BY DEF CRCProposalReview, Uniform
<1>2. IsLayout(head) /\ MembersOf(head) \cap Texts = {}
  BY LayoutOfThree, CallMembers DEF Texts
<1>3. IsLayout(text) /\ MembersOf(text) \subseteq (IF v = 1 THEN {"opinionData"} ELSE {})
  BY LayoutOfOne, LayoutOfNone, CallMembers DEF When
<1>4. IsLayout(tail) /\ MembersOf(tail) \cap Texts = {}
  BY LayoutOfTwo, CallMembers DEF Texts
<1> HIDE DEF head, text, tail
<1>5. IsLayout(front) /\ MembersOf(front) = MembersOf(head) \cup MembersOf(text)
  BY <1>2, <1>3, LayoutConcat
<1> HIDE DEF front
<1>6. IsLayout(front \o tail) /\ MembersOf(front \o tail) = MembersOf(front) \cup MembersOf(tail)
  BY <1>4, <1>5, LayoutConcat
<1>. QED BY <1>1, <1>2, <1>3, <1>4, <1>5, <1>6

LEMMA WithdrawTexts ==
  ASSUME NEW v \in 0..1
  PROVE  LET wire == CRCProposalWithdraw(v).Serialize
         IN  IsLayout(wire) /\ MembersOf(wire) \cap Texts = {}
<1> DEFINE head == <<Hash256("proposalHash"), VarBytes("ownerPubkey")>>
           more == When(v = 1, <<Hash168("recipient"), Uint64("amount")>>)
           front == head \o more
           tail == <<VarBytes("signature")>>
<1>1. CRCProposalWithdraw(v).Serialize = front \o tail
  BY DEF CRCProposalWithdraw, Uniform
<1>2. IsLayout(head) /\ MembersOf(head) \cap Texts = {}
  BY LayoutOfTwo, CallMembers DEF Texts
<1>3. IsLayout(more) /\ MembersOf(more) \cap Texts = {}
  BY LayoutOfTwo, LayoutOfNone, CallMembers DEF When, Texts
<1>4. IsLayout(tail) /\ MembersOf(tail) \cap Texts = {}
  BY LayoutOfOne, CallMembers DEF Texts
<1> HIDE DEF head, more, tail
<1>5. IsLayout(front) /\ MembersOf(front) = MembersOf(head) \cup MembersOf(more)
  BY <1>2, <1>3, LayoutConcat
<1> HIDE DEF front
<1>6. IsLayout(front \o tail) /\ MembersOf(front \o tail) = MembersOf(front) \cup MembersOf(tail)
  BY <1>4, <1>5, LayoutConcat
<1>. QED BY <1>1, <1>2, <1>3, <1>4, <1>5, <1>6

LEMMA CRInfoTexts ==
  ASSUME NEW v \in 0..1
  PROVE  LET wire == CRInfo(v).Serialize
         IN  IsLayout(wire) /\ MembersOf(wire) \cap Texts = {}
<1> DEFINE head == <<VarBytes("code"), Hash168("cid")>>
           more == When(v > CRInfoVersion, <<Hash168("did")>>)
           front == head \o more
           tail == <<VarBytes("nickName"), VarBytes("url"), Uint64("location"), VarBytes("signature")>>
<1>1. CRInfo(v).Serialize = front \o tail
  BY DEF CRInfo, Uniform
<1>2. IsLayout(head) /\ MembersOf(head) \cap Texts = {}
  BY LayoutOfTwo, CallMembers DEF Texts
<1>3. IsLayout(more) /\ MembersOf(more) \cap Texts = {}
  BY LayoutOfOne, LayoutOfNone, CallMembers DEF When, Texts
<1>4. IsLayout(tail) /\ MembersOf(tail) \cap Texts = {}
  BY LayoutOfFour, CallMembers DEF Texts
<1> HIDE DEF head, more, tail
<1>5. IsLayout(front) /\ MembersOf(front) = MembersOf(head) \cup MembersOf(more)
  BY <1>2, <1>3, LayoutConcat
<1> HIDE DEF front
<1>6. IsLayout(front \o tail) /\ MembersOf(front \o tail) = MembersOf(front) \cup MembersOf(tail)
  BY <1>4, <1>5, LayoutConcat
<1>. QED BY <1>1, <1>2, <1>3, <1>4, <1>5, <1>6

LEMMA ProducerTexts ==
  ASSUME NEW v \in 0..1
  PROVE  LET wire == ProducerInfo(v).Serialize
         IN  IsLayout(wire) /\ MembersOf(wire) \cap Texts = {}
<1> DEFINE wire == <<VarBytes("ownerPublicKey"), VarBytes("nodePublicKey"), VarBytes("nickName"),
                     VarBytes("url"), Uint64("location"), VarBytes("address"), VarBytes("signature")>>
           front == <<VarBytes("ownerPublicKey"), VarBytes("nodePublicKey"), VarBytes("nickName"),
                      VarBytes("url")>>
           tail == <<Uint64("location"), VarBytes("address"), VarBytes("signature")>>
<1>1. ProducerInfo(v).Serialize = wire
  BY DEF ProducerInfo, Uniform
<1>3. wire = front \o tail
  OBVIOUS
<1>4. IsLayout(front) /\ MembersOf(front) \cap Texts = {}
  BY LayoutOfFour, CallMembers DEF Texts
<1>5. IsLayout(tail) /\ MembersOf(tail) \cap Texts = {}
  BY LayoutOfThree, CallMembers DEF Texts
<1> HIDE DEF front, tail, wire
<1>6. IsLayout(front \o tail) /\ MembersOf(front \o tail) = MembersOf(front) \cup MembersOf(tail)
  BY <1>4, <1>5, LayoutConcat
<1>. QED BY <1>1, <1>3, <1>4, <1>5, <1>6

LEMMA OtherTexts ==
  ASSUME NEW v \in 0..1
  PROVE  /\ IsLayout(CRCouncilMemberClaimNode(v).Serialize)
         /\ MembersOf(CRCouncilMemberClaimNode(v).Serialize) \cap Texts = {}
         /\ IsLayout(UnregisterCR(v).Serialize) /\ MembersOf(UnregisterCR(v).Serialize) \cap Texts = {}
         /\ IsLayout(CancelProducer(v).Serialize) /\ MembersOf(CancelProducer(v).Serialize) \cap Texts = {}
         /\ IsLayout(DPoSV2ClaimReward(v).Serialize)
         /\ MembersOf(DPoSV2ClaimReward(v).Serialize) \cap Texts = {}
         /\ IsLayout(Unstake(v).Serialize) /\ MembersOf(Unstake(v).Serialize) \cap Texts = {}
<1>1. /\ IsLayout(CRCouncilMemberClaimNode(v).Serialize)
      /\ MembersOf(CRCouncilMemberClaimNode(v).Serialize) \cap Texts = {}
  <2>1. CRCouncilMemberClaimNode(v).Serialize =
          <<VarBytes("nodePublicKey"), Hash168("crCouncilMemberDID"), VarBytes("crCouncilMemberSignature")>>
    BY DEF CRCouncilMemberClaimNode, Uniform
  <2>. QED BY <2>1, LayoutOfThree, CallMembers DEF Texts
<1>2. IsLayout(UnregisterCR(v).Serialize) /\ MembersOf(UnregisterCR(v).Serialize) \cap Texts = {}
  <2>1. UnregisterCR(v).Serialize = <<Hash168("cid"), VarBytes("signature")>>
    BY DEF UnregisterCR, Uniform
  <2>. QED BY <2>1, LayoutOfTwo, CallMembers DEF Texts
<1>3. IsLayout(CancelProducer(v).Serialize) /\ MembersOf(CancelProducer(v).Serialize) \cap Texts = {}
  <2>1. CancelProducer(v).Serialize = <<VarBytes("publicKey"), VarBytes("signature")>>
    BY DEF CancelProducer, Uniform
  <2>. QED BY <2>1, LayoutOfTwo, CallMembers DEF Texts
<1>4. IsLayout(DPoSV2ClaimReward(v).Serialize) /\ MembersOf(DPoSV2ClaimReward(v).Serialize) \cap Texts = {}
  <2>1. DPoSV2ClaimReward(v).Serialize = <<Uint64("amount"), VarBytes("signature")>>
    BY DEF DPoSV2ClaimReward, Uniform
  <2>. QED BY <2>1, LayoutOfTwo, CallMembers DEF Texts
<1>5. IsLayout(Unstake(v).Serialize) /\ MembersOf(Unstake(v).Serialize) \cap Texts = {}
  <2>1. Unstake(v).Serialize =
          <<Hash168("toAddr"), VarBytes("code"), Uint64("value"), VarBytes("signature")>>
    BY DEF Unstake, Uniform
  <2>. QED BY <2>1, LayoutOfFour, CallMembers DEF Texts
<1>. QED BY <1>1, <1>2, <1>3, <1>4, <1>5

\* What is signed of a payload with one signature.
LEMMA SingleTexts ==
  ASSUME NEW f \in SingleFlows, NEW v \in 0..1
  PROVE  MembersOf(Stages(f)[1].unsigned[v]) \cap Texts \subseteq
           (IF f = "review" /\ v = 1 THEN {"opinionData"} ELSE {})
<1> DEFINE T == MembersOf(Stages(f)[1].unsigned[v]) \cap Texts
<1>1. Stages(f)[1] = SingleDigest(f)
  BY SingleCreation DEF Stages
<1>2. \A s, k, w : Single(s, k, w).unsigned[v] = SubSeq(w[v], 1, Len(w[v]) - 1)
  BY DEF Single, Stage
<1>3. CASE f = "review"
  <2>1. Stages(f)[1].unsigned[v] = SubSeq(CRCProposalReview(v).Serialize, 1, Len(CRCProposalReview(v).Serialize) - 1)
    BY <1>1, <1>2, <1>3 DEF SingleDigest, ProposalReviewDigest
  <2>. QED BY <1>3, <2>1, PrefixMembers, ReviewTexts
<1>4. CASE f = "withdraw"
  <2>1. Stages(f)[1].unsigned[v] = SubSeq(CRCProposalWithdraw(v).Serialize, 1, Len(CRCProposalWithdraw(v).Serialize) - 1)
    BY <1>1, <1>2, <1>4 DEF SingleDigest, ProposalWithdrawDigest
  <2>. QED BY <2>1, PrefixMembers, WithdrawTexts
<1>5. CASE f \in {"registerCR", "updateCR"}
  <2>1. Stages(f)[1].unsigned[v] = SubSeq(CRInfo(v).Serialize, 1, Len(CRInfo(v).Serialize) - 1)
    BY <1>1, <1>2, <1>5 DEF SingleDigest, GenerateCRInfoPayload
  <2>. QED BY <2>1, PrefixMembers, CRInfoTexts
<1>6. CASE f = "registerProducer"
  <2>1. Stages(f)[1].unsigned[v] = SubSeq(ProducerInfo(v).Serialize, 1, Len(ProducerInfo(v).Serialize) - 1)
    BY <1>1, <1>2, <1>6 DEF SingleDigest, GenerateProducerPayload
  <2>. QED BY <2>1, PrefixMembers, ProducerTexts
<1>7. CASE f = "claimNode"
  <2>1. Stages(f)[1].unsigned[v] =
          SubSeq(CRCouncilMemberClaimNode(v).Serialize, 1, Len(CRCouncilMemberClaimNode(v).Serialize) - 1)
    BY <1>1, <1>2, <1>7 DEF SingleDigest, CRCouncilMemberClaimNodeDigest
  <2>. QED BY <2>1, PrefixMembers, OtherTexts
<1>8. CASE f = "unregisterCR"
  <2>1. Stages(f)[1].unsigned[v] = SubSeq(UnregisterCR(v).Serialize, 1, Len(UnregisterCR(v).Serialize) - 1)
    BY <1>1, <1>2, <1>8 DEF SingleDigest, GenerateUnregisterCRPayload
  <2>. QED BY <2>1, PrefixMembers, OtherTexts
<1>9. CASE f = "cancelProducer"
  <2>1. Stages(f)[1].unsigned[v] = SubSeq(CancelProducer(v).Serialize, 1, Len(CancelProducer(v).Serialize) - 1)
    BY <1>1, <1>2, <1>9 DEF SingleDigest, GenerateCancelProducerPayload
  <2>. QED BY <2>1, PrefixMembers, OtherTexts
<1>10. CASE f = "claimReward"
  <2>1. Stages(f)[1].unsigned[v] =
          SubSeq(DPoSV2ClaimReward(v).Serialize, 1, Len(DPoSV2ClaimReward(v).Serialize) - 1)
    BY <1>1, <1>2, <1>10 DEF SingleDigest, DPoSV2ClaimRewardDigest
  <2>. QED BY <2>1, PrefixMembers, OtherTexts
<1>11. CASE f = "unstake"
  <2>1. Stages(f)[1].unsigned[v] = SubSeq(Unstake(v).Serialize, 1, Len(Unstake(v).Serialize) - 1)
    BY <1>1, <1>2, <1>11 DEF SingleDigest, UnstakeDigest
  <2>. QED BY <2>1, PrefixMembers, OtherTexts
<1>. QED BY <1>3, <1>4, <1>5, <1>6, <1>7, <1>8, <1>9, <1>10, <1>11 DEF SingleFlows, AllFlows, ProposalFlows

\* What is signed of a proposal.
LEMMA ProposalTexts ==
  ASSUME NEW f \in ProposalFlows, NEW i \in DOMAIN Stages(f), NEW v \in 0..1
  PROVE  MembersOf(Stages(f)[i].unsigned[v]) \cap Texts \subseteq (IF v = 1 THEN {"draftData"} ELSE {})
<1>1. MembersOf(OwnerUnsigned(f, v)) \cap Texts \subseteq (IF v = 1 THEN {"draftData"} ELSE {})
  <2>1. MembersOf(Body(f)) \cap Texts = {}
    BY BodyLayout DEF BodyMembers, Texts
  <2>2. HeadMembers \cap Texts = {}
    BY DEF HeadMembers, Texts
  <2>. QED BY <2>1, <2>2, OwnerLayout
<1>2. MembersOf(CRCouncilMemberUnsigned(f, v)) \cap Texts \subseteq (IF v = 1 THEN {"draftData"} ELSE {})
  <2>1. MembersOf(Cosigned(f)) \cap Texts = {}
    BY CosignedLayout DEF Texts
  <2>2. MembersOf(CRCouncilMemberUnsigned(f, v)) =
          MembersOf(OwnerUnsigned(f, v)) \cup {"signature", "crCouncilMemberDID"} \cup MembersOf(Cosigned(f))
    BY MemberLayout
  <2>3. {"signature", "crCouncilMemberDID"} \cap Texts = {}
    BY DEF Texts
  <2>. QED BY <1>1, <2>1, <2>2, <2>3
<1>3. Stages(f)[i].unsigned[v] \in {OwnerUnsigned(f, v), CRCouncilMemberUnsigned(f, v)}
  BY ProposalShape, OwnerStageOf, MemberStageOf
<1>. QED BY <1>1, <1>2, <1>3

\* A function reads a text only if its version says that it is there.
LEMMA TextsReadAreThere ==
  ASSUME NEW f \in AllFlows, NEW i \in 1..Last(f), NEW val
  PROVE  LET j == IF i = Last(f) THEN i - 1 ELSE i
         IN  /\ j \in DOMAIN Stages(f)
             /\ \A m \in MembersOf(Stages(f)[j].unsigned[Version(f, i, val)]) \cap Texts : Has(val, m)
<1> DEFINE j == IF i = Last(f) THEN i - 1 ELSE i
           v == Version(f, i, val)
<1>0. j \in DOMAIN Stages(f)
  <2>1. PICK n \in 1..3 : n = Len(Stages(f)) /\ DOMAIN Stages(f) = 1..n
    BY StagesDomain
  <2>2. Last(f) = n + 1
    BY <2>1 DEF Last
  <2>. QED BY <2>1, <2>2
<1>1. v \in 0..1
  BY VersionRange
<1>2. CASE f \in ProposalFlows
  <2>1. v = 1 => Has(val, "draftData")
    BY <1>2 DEF Version, ProposalFlows
  <2> HIDE DEF v, j
  <2>2. MembersOf(Stages(f)[j].unsigned[v]) \cap Texts \subseteq (IF v = 1 THEN {"draftData"} ELSE {})
    BY <1>0, <1>1, <1>2, ProposalTexts
  <2>3. \A m \in MembersOf(Stages(f)[j].unsigned[v]) \cap Texts : Has(val, m)
    BY <1>1, <2>1, <2>2
  <2>. QED BY <1>0, <2>3 DEF j, v
<1>3. CASE f = "tracking"
  <2>0. Last(f) = 4
    <3>1. Len(Stages("tracking")) = 3
      BY TrackingShape, Zenon
    <3>2. Last(f) = 3 + 1
      BY <1>3, <3>1, Zenon DEF Last
    <3>. QED BY <3>2
  <2>1. v = 1 => Has(val, "messageData")
    BY <1>3, <2>0 DEF Version, ProposalFlows
  <2>2. v = 1 /\ j = 3 => Has(val, "secretaryGeneralOpinionData")
    BY <1>3, <2>0 DEF Version, ProposalFlows
  <2> HIDE DEF v, j
  <2>3. TrackingMembers(v) \cap Texts \subseteq (IF v = 1 THEN {"messageData"} ELSE {})
    BY DEF TrackingMembers, Texts
  <2>4. CASE j = 1
    <3>1. MembersOf(Stages(f)[j].unsigned[v]) = TrackingMembers(v)
      BY <1>1, <1>3, <2>4, TrackingShape, TrackingOwnerLayout
    <3>2. \A m \in MembersOf(Stages(f)[j].unsigned[v]) \cap Texts : Has(val, m)
      BY <1>1, <2>1, <2>3, <3>1
    <3>. QED BY <1>0, <3>2 DEF j, v
  <2>5. CASE j = 2
    <3>1. MembersOf(Stages(f)[j].unsigned[v]) = TrackingMembers(v) \cup {"ownerSign"}
      BY <1>1, <1>3, <2>5, TrackingShape, TrackingNewOwnerLayout
    <3>2. "ownerSign" \notin Texts
      BY DEF Texts
    <3>3. \A m \in MembersOf(Stages(f)[j].unsigned[v]) \cap Texts : Has(val, m)
      BY <1>1, <2>1, <2>3, <3>1, <3>2
    <3>. QED BY <1>0, <3>3 DEF j, v
  <2>6. CASE j = 3
    <3>1. MembersOf(Stages(f)[j].unsigned[v]) = TrackingMembers(v) \cup
            {"ownerSign", "newOwnerSign", "type", "secretaryGeneralOpinionHash"}
            \cup (IF v = 1 THEN {"secretaryGeneralOpinionData"} ELSE {})
      BY <1>1, <1>3, <2>6, TrackingShape, TrackingSecretaryLayout
    <3>2. {"ownerSign", "newOwnerSign", "type", "secretaryGeneralOpinionHash"} \cap Texts = {}
      BY DEF Texts
    <3>3. \A m \in MembersOf(Stages(f)[j].unsigned[v]) \cap Texts : Has(val, m)
      BY <1>1, <2>1, <2>2, <2>3, <2>6, <3>1, <3>2
    <3>. QED BY <1>0, <3>3 DEF j, v
  <2>. QED BY <1>0, <1>3, <2>4, <2>5, <2>6, TrackingShape
<1>4. CASE f \in SingleFlows
  <2>1. f = "review" /\ v = 1 => Has(val, "opinionData")
    BY DEF Version, ProposalFlows
  <2>2. j = 1
    BY <1>0, <1>4, SingleShape
  <2> HIDE DEF v, j
  <2>3. \A m \in MembersOf(Stages(f)[j].unsigned[v]) \cap Texts : Has(val, m)
    BY <1>1, <1>4, <2>1, <2>2, SingleTexts
  <2>. QED BY <1>0, <2>3 DEF j, v
<1>. QED BY <1>2, <1>3, <1>4 DEF SingleFlows

(***************************************************************************)
(* A document that was signed in turn is accepted.                         *)
(***************************************************************************)
\* The stages whose signatures function i verifies.
Checked(f, i) == IF i = Last(f) THEN Creation(f).verified ELSE Stages(f)[i].after

\* The owners of a tracking payload take it for one of the newer version, the
\* secretary general and the Create function for one of the older.
Mismatch(f, i, val) ==
  f = "tracking" /\ i > 2 /\ Has(val, "messageData") /\ ~Has(val, "secretaryGeneralOpinionData")

\* What is signed is in the document.
LEMMA SignedInDoc ==
  ASSUME NEW f, NEW j \in DOMAIN Stages(f), NEW v \in 0..1
  PROVE  MembersOf(Stages(f)[j].unsigned[v]) \subseteq DocMembers(f)
<1> DEFINE M(n, w) == MembersOf(Stages(f)[n].unsigned[w])
<1>1. SignedMembers(f) = UNION {M(n, w) : n \in DOMAIN Stages(f), w \in 0..1}
  BY DEF SignedMembers
<1> HIDE DEF M
<1>2. M(j, v) \subseteq SignedMembers(f)
  BY <1>1
<1>. QED BY <1>2 DEF M, DocMembers

LEMMA FittingIsReadable ==
  ASSUME NEW f \in AllFlows, NEW i \in 1..Last(f), NEW val,
         \A m \in DOMAIN HashOf \cap DocMembers(f) : Has(val, m) => val[m] = val[HashOf[m]]
  PROVE  Readable(f, i, val)
<1> DEFINE j == IF i = Last(f) THEN i - 1 ELSE i
           v == Version(f, i, val)
           read == Stages(f)[j].unsigned[v]
<1>1. j \in DOMAIN Stages(f) /\ \A m \in MembersOf(read) \cap Texts : Has(val, m)
  BY TextsReadAreThere
<1>2. v \in 0..1
  BY VersionRange
<1> HIDE DEF j, v
<1>3. MembersOf(read) \subseteq DocMembers(f)
  BY <1>1, <1>2, SignedInDoc
<1> HIDE DEF read
<1>4. \A m \in MembersOf(read) \cap DOMAIN HashOf : val[m] = val[HashOf[m]]
  BY <1>1, <1>3, HashOfTexts
<1>. QED BY <1>4, Zenon DEF Readable, read, j, v

\* Otherwise all functions agree on the version.
LEMMA VersionsAgree ==
  ASSUME NEW f \in AllFlows, NEW i \in 1..Last(f), NEW val, ~Mismatch(f, i, val), NEW j \in Checked(f, i)
  PROVE  Version(f, j, val) = Version(f, i, val)
<1>1. CASE f # "tracking"
  BY <1>1 DEF Version
<1>2. CASE f = "tracking"
  <2>1. Last(f) = 4
    <3>1. Len(Stages("tracking")) = 3
      BY TrackingShape, Zenon
    <3>2. Last(f) = 3 + 1
      BY <1>2, <3>1, Zenon DEF Last
    <3>. QED BY <3>2
  <2>2. j \in 1..2 /\ i \in 2..4
    <3>1. Checked(f, i) = IF i = 4 THEN Creation("tracking").verified ELSE Stages("tracking")[i].after
      BY <1>2, <2>1, Zenon DEF Checked
    <3>. QED BY <2>1, <3>1, TrackingShape
  <2>. QED BY <1>2, <2>2 DEF Version, Mismatch, ProposalFlows, Has
<1>. QED BY <1>1, <1>2

\* In that case the owner's signature is refused: it is over longer bytes.
LEMMA MismatchIsRefused ==
  ASSUME TypeInv, NEW i \in 1..Last(flow), Mismatch(flow, i, doc),
         \A j \in Checked(flow, i) : Verifies(flow, j, Version(flow, j, doc), doc)
  PROVE  ~Accepts(flow, i, doc)
<1> DEFINE S == Stages("tracking")
<1>0. flow = "tracking" /\ i > 2
  BY DEF Mismatch
<1>1. Last(flow) = 4
  <2>1. Len(S) = 3
    BY TrackingShape, Zenon
  <2>2. Last(flow) = 3 + 1
    BY <1>0, <2>1, Zenon DEF Last
  <2>. QED BY <2>2
<1>2. 1 \in Checked(flow, i)
  <2>1. Checked(flow, i) = IF i = 4 THEN Creation("tracking").verified ELSE S[i].after
    BY <1>0, <1>1, Zenon DEF Checked
  <2>. QED BY <1>0, <1>1, <2>1, TrackingShape
<1>3. Version(flow, 1, doc) = 1 /\ Version(flow, i, doc) = 0
  BY <1>0, <1>1 DEF Version, Mismatch, ProposalFlows, Has
<1>4. S[1].key = "ownerPubKey" /\ S[1].sig = "ownerSign" /\ DOMAIN S = 1..3
  BY TrackingShape
<1>5. Has(doc, "ownerPubKey")
  <2>1. "ownerPubKey" \in KeyMembers(flow)
    <3>1. S[1].key \in {S[n].key : n \in DOMAIN S}
      BY <1>4
    <3>2. "ownerPubKey" # Unset
      BY DEF Unset
    <3>. QED BY <1>0, <1>4, <3>1, <3>2 DEF KeyMembers
  <2>2. "ownerPubKey" \in DocMembers(flow)
    <3>1. "ownerPubKey" \in MembersOf(S[1].unsigned[0])
      BY TrackingShape, TrackingOwnerLayout DEF TrackingMembers
    <3>2. 1 \in DOMAIN S /\ 0 \in 0..1
      BY <1>4
    <3>. QED BY <1>0, <3>1, <3>2, SignedInDoc
  <2>3. "ownerPubKey" \notin SigMembers(flow)
    <3>1. \A n \in DOMAIN S : S[n].sig # "ownerPubKey"
      BY TrackingShape
    <3>. QED BY <1>0, <3>1, Zenon DEF SigMembers
  <2>4. Values(flow, "ownerPubKey") = Keys
    <3>1. "ownerPubKey" \notin DOMAIN HashOf
      BY HashOfTexts DEF Texts
    <3>. QED BY <2>1, <3>1 DEF Values
  <2>5. doc["ownerPubKey"] \in Keys
    BY <2>2, <2>3, <2>4 DEF TypeInv, ValuesInv
  <2>. QED BY <2>5, KeysAssumption DEF Has
<1> SUFFICES ASSUME Accepts(flow, i, doc) PROVE FALSE
  OBVIOUS
<1>6. Verifies(flow, 1, 1, doc) /\ Verifies(flow, 1, 0, doc)
  <2>1. Verifies(flow, 1, 1, doc)
    BY <1>2, <1>3
  <2>2. Verifies(flow, 1, Version(flow, i, doc), doc)
    BY <1>2, Zenon DEF Accepts, Checked
  <2>. QED BY <1>3, <2>1, <2>2
<1>7. /\ doc["ownerSign"] = <<doc["ownerPubKey"], Digest(flow, 1, 1, doc)>>
      /\ doc["ownerSign"] = <<doc["ownerPubKey"], Digest(flow, 1, 0, doc)>>
  BY <1>0, <1>4, <1>5, <1>6, Zenon DEF Verifies
<1>8. Digest(flow, 1, 1, doc) = Digest(flow, 1, 0, doc)
  BY <1>7
<1>9. Written(S[1].unsigned[1], doc) = Written(S[1].unsigned[0], doc)
  BY <1>0, <1>8, Zenon DEF Digest
<1>10. 1 \in DOMAIN S /\ 1 \in 1..2 /\ 1 \in 0..1 /\ 0 \in 0..1
  BY <1>4
<1>11. 1 = 0
  BY <1>9, <1>10, TrackingBytes
<1>. QED BY <1>11

LEMMA SignedIsAccepted == TypeInv => Completable
<1> SUFFICES ASSUME TypeInv, NEW i \in 1..Last(flow),
                    \A m \in DOMAIN HashOf \cap DocMembers(flow) : Has(doc, m) => doc[m] = doc[HashOf[m]],
                    \A j \in Checked(flow, i) : Verifies(flow, j, Version(flow, j, doc), doc),
                    i = Last(flow) => \A j \in Creation(flow).present : doc[Stages(flow)[j].sig] # NoSig
             PROVE  Accepts(flow, i, doc) <=> ~Mismatch(flow, i, doc)
  BY Zenon DEF Completable, Checked, Mismatch
<1>1. flow \in AllFlows
  BY FlowsAssumption DEF TypeInv, AgreementInv, IInv, SignaturesIssued
<1>2. Readable(flow, i, doc)
  BY <1>1, FittingIsReadable
<1>3. ASSUME ~Mismatch(flow, i, doc) PROVE Accepts(flow, i, doc)
  <2>1. \A j \in Checked(flow, i) : Verifies(flow, j, Version(flow, i, doc), doc)
    BY <1>1, <1>3, VersionsAgree
  <2>. QED BY <1>2, <2>1, Zenon DEF Accepts, Checked
<1>4. ASSUME Mismatch(flow, i, doc) PROVE ~Accepts(flow, i, doc)
  BY <1>4, MismatchIsRefused
<1>. QED BY <1>3, <1>4

\* A document that the parties signed in turn is refused in one case only (the
\* versions that the digest functions and the Create functions compute).
THEOREM SpecCompletable == Spec => []Completable
BY InitTypeInv, NextTypeInv, SignedIsAccepted, PTL DEF Spec

-----------------------------------------------------------------------------
(***************************************************************************)
(* The classes.  A list of calls, or of keys, is described by the set of   *)
(* its elements: the order matters only between Serialize and Deserialize. *)
(***************************************************************************)
Calls(l) == {l[i] : i \in DOMAIN l}

Listed(l, S) == IsLayout(l) /\ Calls(l) = S

LEMMA ListedNone == Listed(<<>>, {})
BY LayoutOfNone DEF Listed, Calls

LEMMA ListedOne ==
  ASSUME NEW a
  PROVE  Listed(<<a>>, {a})
<1>1. Calls(<<a>>) = {a}
  BY DEF Calls
<1>. QED BY <1>1, LayoutOfOne DEF Listed

LEMMA ListedTwo ==
  ASSUME NEW a, NEW b
  PROVE  Listed(<<a, b>>, {a, b})
<1>1. Calls(<<a, b>>) = {a, b}
  BY DEF Calls
<1>. QED BY <1>1, LayoutOfTwo DEF Listed

LEMMA ListedThree ==
  ASSUME NEW a, NEW b, NEW c
  PROVE  Listed(<<a, b, c>>, {a, b, c})
<1>1. Calls(<<a, b, c>>) = {a, b, c}
  BY DEF Calls
<1>. QED BY <1>1, LayoutOfThree DEF Listed

LEMMA ListedConcat ==
  ASSUME NEW a, NEW b, NEW A, NEW B, Listed(a, A), Listed(b, B)
  PROVE  Listed(a \o b, A \cup B)
<1> DEFINE s == a \o b
<1>1. /\ IsLayout(s) /\ Len(s) = Len(a) + Len(b) /\ Len(a) \in Nat /\ Len(b) \in Nat
      /\ \A i \in 1..Len(a) : s[i] = a[i]
      /\ \A i \in 1..Len(b) : s[Len(a) + i] = b[i]
  BY LayoutConcat DEF Listed
<1>2. DOMAIN a = 1..Len(a) /\ DOMAIN b = 1..Len(b) /\ A = Calls(a) /\ B = Calls(b)
  BY DEF Listed, IsLayout
<1> HIDE DEF s
<1>3. DOMAIN s = 1..(Len(a) + Len(b))
  BY <1>1 DEF IsLayout
<1>4. Calls(s) \subseteq A \cup B
  <2> SUFFICES ASSUME NEW i \in DOMAIN s PROVE s[i] \in A \cup B
    BY DEF Calls
  <2>1. CASE i \in 1..Len(a)
    BY <1>1, <1>2, <2>1 DEF Calls
  <2>2. CASE i \notin 1..Len(a)
    <3> DEFINE j == i - Len(a)
    <3>1. j \in 1..Len(b) /\ i = Len(a) + j
      BY <1>1, <1>3, <2>2
    <3> HIDE DEF j
    <3>. QED BY <1>1, <1>2, <3>1 DEF Calls
  <2>. QED BY <2>1, <2>2
<1>5. A \subseteq Calls(s)
  <2> SUFFICES ASSUME NEW i \in DOMAIN a PROVE a[i] \in Calls(s)
    BY <1>2 DEF Calls
  <2>1. i \in DOMAIN s /\ s[i] = a[i]
    BY <1>1, <1>2, <1>3
  <2>. QED BY <2>1 DEF Calls
<1>6. B \subseteq Calls(s)
  <2> SUFFICES ASSUME NEW i \in DOMAIN b PROVE b[i] \in Calls(s)
    BY <1>2 DEF Calls
  <2>1. Len(a) + i \in DOMAIN s /\ s[Len(a) + i] = b[i]
    BY <1>1, <1>2, <1>3
  <2>. QED BY <2>1 DEF Calls
<1>7. Calls(s) = A \cup B
  BY <1>4, <1>5, <1>6
<1>. QED BY <1>1, <1>7 DEF Listed, s

LEMMA ListedWhen ==
  ASSUME NEW c, NEW l, NEW S, Listed(l, S)
  PROVE  Listed(When(c, l), IF c THEN S ELSE {})
BY ListedNone DEF When

LEMMA ListedFour ==
  ASSUME NEW a, NEW b, NEW c, NEW d
  PROVE  Listed(<<a, b, c, d>>, {a, b, c, d})
<1>1. Calls(<<a, b, c, d>>) = {a, b, c, d}
  BY DEF Calls
<1>2. <<a, b, c, d>> \in Seq({a, b, c, d})
  OBVIOUS
<1>3. IsLayout(<<a, b, c, d>>)
  BY <1>2, Zenon DEF IsLayout
<1>. QED BY <1>1, <1>3 DEF Listed

LEMMA ListedFive ==
  ASSUME NEW a, NEW b, NEW c, NEW d, NEW e
  PROVE  Listed(<<a, b, c, d, e>>, {a, b, c, d, e})
<1>1. Calls(<<a, b, c, d, e>>) = {a, b, c, d, e}
  BY DEF Calls
<1>2. <<a, b, c, d, e>> \in Seq({a, b, c, d, e})
  OBVIOUS
<1>3. IsLayout(<<a, b, c, d, e>>)
  BY <1>2, Zenon DEF IsLayout
<1>. QED BY <1>1, <1>3 DEF Listed

LEMMA ListedSix ==
  ASSUME NEW a, NEW b, NEW c, NEW d, NEW e, NEW f
  PROVE  Listed(<<a, b, c, d, e, f>>, {a, b, c, d, e, f})
<1>1. Calls(<<a, b, c, d, e, f>>) = {a, b, c, d, e, f}
  BY DEF Calls
<1>2. <<a, b, c, d, e, f>> \in Seq({a, b, c, d, e, f})
  OBVIOUS
<1>3. IsLayout(<<a, b, c, d, e, f>>)
  BY <1>2, Zenon DEF IsLayout
<1>. QED BY <1>1, <1>3 DEF Listed

LEMMA ListedSeven ==
  ASSUME NEW a, NEW b, NEW c, NEW d, NEW e, NEW f, NEW g
  PROVE  Listed(<<a, b, c, d, e, f, g>>, {a, b, c, d, e, f, g})
<1>1. Calls(<<a, b, c, d, e, f, g>>) = {a, b, c, d, e, f, g}
  BY DEF Calls
<1>2. <<a, b, c, d, e, f, g>> \in Seq({a, b, c, d, e, f, g})
  OBVIOUS
<1>3. IsLayout(<<a, b, c, d, e, f, g>>)
  BY <1>2, Zenon DEF IsLayout
<1>. QED BY <1>1, <1>3 DEF Listed

\* Every call is about a member, and no key stands for two members.
AllCalls(S) == \A c \in S : IsCall(c)
OneMemberEach(J) == \A p, q \in J : p[1] = q[1] => p[2] = q[2]

MembersIn(S) == {c[2] : c \in S}

\* What the conversions of a class have to agree on.
Consistent(G) ==
  /\ IsLayout(G.Serialize) /\ AllCalls(Calls(G.Serialize))
  /\ G.ToJson = G.FromJson /\ OneMemberEach(Calls(G.FromJson))
  /\ G.Equal \cup MembersIn(Calls(G.Serialize)) \subseteq G.Copy
  /\ \A m \in G.Equal : m \in MembersIn(Calls(G.Serialize)) \/ m \notin MembersIn(Calls(G.FromJson))

Regular(G) == Consistent(G) /\ G.Deserialize = G.Serialize
WrittenIsCompared(G) == MembersIn(Calls(G.Serialize)) \subseteq G.Equal
Counted(G) == Calls(G.EstimateSize) = Calls(G.Serialize)

\* What holds for most classes, and what still holds where the size is not exact.
Whole(G) == Regular(G) /\ WrittenIsCompared(G) /\ Counted(G)
AllButSize(G) == Regular(G) /\ WrittenIsCompared(G) /\ ~Counted(G)

\* A class of which nothing is written or compared.
Blank(G) == Calls(G.Serialize) = {} /\ G.Equal = {} /\ G.ToJson = G.FromJson /\ Counted(G)

LEMMA MembersOfCalls ==
  ASSUME NEW l, AllCalls(Calls(l))
  PROVE  MembersOf(l) = MembersIn(Calls(l))
BY DEF MembersOf, MembersIn, Calls, AllCalls, IsCall

LEMMA UniformWhole ==
  ASSUME NEW wire, NEW W, Listed(wire, W), AllCalls(W), NEW json, NEW J, Listed(json, J), OneMemberEach(J)
  PROVE  Whole(Uniform(wire, json))
<1> DEFINE G == Uniform(wire, json)
<1>1. /\ G.Serialize = wire /\ G.Deserialize = wire /\ G.ToJson = json /\ G.FromJson = json
      /\ G.Copy = MembersOf(wire) /\ G.Equal = MembersOf(wire) /\ G.EstimateSize = wire
  BY DEF Uniform
<1>2. Calls(wire) = W /\ Calls(json) = J /\ IsLayout(wire)
  BY DEF Listed
<1>3. MembersOf(wire) = MembersIn(W)
  BY <1>2, MembersOfCalls
<1> HIDE DEF G
<1>4. Whole(G)
  BY <1>1, <1>2, <1>3 DEF Whole, Regular, Consistent, WrittenIsCompared, Counted
<1>. QED BY <1>4 DEF G

LEMMA EmptyWhole == Whole(Empty)
<1>1. Calls(<<>>) = {} /\ IsLayout(<<>>)
  BY ListedNone DEF Listed
<1>. QED BY <1>1 DEF Whole, Regular, Consistent, WrittenIsCompared, Counted, Empty, AllCalls, OneMemberEach, MembersIn

LEMMA UniformOne ==
  ASSUME NEW a, IsCall(a), NEW p
  PROVE  Whole(Uniform(<<a>>, <<p>>))
<1>1. AllCalls({a}) /\ OneMemberEach({p})
  BY DEF AllCalls, OneMemberEach
<1>. QED BY <1>1, UniformWhole, ListedOne

LEMMA UniformTwo ==
  ASSUME NEW a, NEW b, IsCall(a), IsCall(b), NEW p, NEW q, p[1] # q[1]
  PROVE  Whole(Uniform(<<a, b>>, <<p, q>>))
<1>1. AllCalls({a, b}) /\ OneMemberEach({p, q})
  BY DEF AllCalls, OneMemberEach
<1>. QED BY <1>1, UniformWhole, ListedTwo

LEMMA UniformThree ==
  ASSUME NEW a, NEW b, NEW c, IsCall(a), IsCall(b), IsCall(c),
         NEW p, NEW q, NEW r, p[1] # q[1], p[1] # r[1], q[1] # r[1]
  PROVE  Whole(Uniform(<<a, b, c>>, <<p, q, r>>))
<1>1. AllCalls({a, b, c}) /\ OneMemberEach({p, q, r})
  BY DEF AllCalls, OneMemberEach
<1>. QED BY <1>1, UniformWhole, ListedThree

LEMMA UniformFour ==
  ASSUME NEW a, NEW b, NEW c, NEW d, IsCall(a), IsCall(b), IsCall(c), IsCall(d),
         NEW p, NEW q, NEW r, NEW s, p[1] # q[1], p[1] # r[1], p[1] # s[1], q[1] # r[1], q[1] # s[1], r[1] # s[1]
  PROVE  Whole(Uniform(<<a, b, c, d>>, <<p, q, r, s>>))
<1>1. AllCalls({a, b, c, d}) /\ OneMemberEach({p, q, r, s})
  BY DEF AllCalls, OneMemberEach
<1>. QED BY <1>1, UniformWhole, ListedFour

LEMMA UniformFive ==
  ASSUME NEW a, NEW b, NEW c, NEW d, NEW e,
         IsCall(a), IsCall(b), IsCall(c), IsCall(d), IsCall(e),
         NEW p, NEW q, NEW r, NEW s, NEW t,
         p[1] # q[1], p[1] # r[1], p[1] # s[1], p[1] # t[1], q[1] # r[1], q[1] # s[1], q[1] # t[1],
         r[1] # s[1], r[1] # t[1], s[1] # t[1]
  PROVE  Whole(Uniform(<<a, b, c, d, e>>, <<p, q, r, s, t>>))
<1>1. AllCalls({a, b, c, d, e}) /\ OneMemberEach({p, q, r, s, t})
  BY DEF AllCalls, OneMemberEach
<1>. QED BY <1>1, UniformWhole, ListedFive

LEMMA UniformSix ==
  ASSUME NEW a, NEW b, NEW c, NEW d, NEW e, NEW f,
         IsCall(a), IsCall(b), IsCall(c), IsCall(d), IsCall(e), IsCall(f),
         NEW p, NEW q, NEW r, NEW s, NEW t, NEW u,
         p[1] # q[1], p[1] # r[1], p[1] # s[1], p[1] # t[1], p[1] # u[1], q[1] # r[1], q[1] # s[1],
         q[1] # t[1], q[1] # u[1], r[1] # s[1], r[1] # t[1], r[1] # u[1], s[1] # t[1], s[1] # u[1],
         t[1] # u[1]
  PROVE  Whole(Uniform(<<a, b, c, d, e, f>>, <<p, q, r, s, t, u>>))
<1>1. AllCalls({a, b, c, d, e, f}) /\ OneMemberEach({p, q, r, s, t, u})
  BY DEF AllCalls, OneMemberEach
<1>. QED BY <1>1, UniformWhole, ListedSix

LEMMA UniformSeven ==
  ASSUME NEW a, NEW b, NEW c, NEW d, NEW e, NEW f, NEW g,
         IsCall(a), IsCall(b), IsCall(c), IsCall(d), IsCall(e), IsCall(f), IsCall(g),
         NEW p, NEW q, NEW r, NEW s, NEW t, NEW u, NEW w,
         p[1] # q[1], p[1] # r[1], p[1] # s[1], p[1] # t[1], p[1] # u[1], p[1] # w[1], q[1] # r[1],
         q[1] # s[1], q[1] # t[1], q[1] # u[1], q[1] # w[1], r[1] # s[1], r[1] # t[1], r[1] # u[1],
         r[1] # w[1], s[1] # t[1], s[1] # u[1], s[1] # w[1], t[1] # u[1], t[1] # w[1], u[1] # w[1]
  PROVE  Whole(Uniform(<<a, b, c, d, e, f, g>>, <<p, q, r, s, t, u, w>>))
<1>1. AllCalls({a, b, c, d, e, f, g}) /\ OneMemberEach({p, q, r, s, t, u, w})
  BY DEF AllCalls, OneMemberEach
<1>. QED BY <1>1, UniformWhole, ListedSeven

\* The members of such a class are the same whether it can be compared or not.
LEMMA WithComparable ==
  ASSUME NEW wire, NEW json, Whole(Uniform(wire, json)),
         NEW b, NEW H, H = [Uniform(wire, json) EXCEPT !.Comparable = b]
  PROVE  Whole(H)
<1> DEFINE G == Uniform(wire, json)
<1>1. /\ H.Serialize = G.Serialize /\ H.Deserialize = G.Deserialize /\ H.ToJson = G.ToJson
      /\ H.FromJson = G.FromJson /\ H.Copy = G.Copy /\ H.Equal = G.Equal /\ H.EstimateSize = G.EstimateSize
  BY DEF Uniform
<1>2. Whole(G)
  OBVIOUS
<1> HIDE DEF G
<1>. QED BY <1>1, <1>2 DEF Whole, Regular, Consistent, WrittenIsCompared, Counted

\* The classes whose functions all agree.
LEMMA UniformClasses ==
  ASSUME NEW v
  PROVE  /\ Whole(CoinBase(v))
         /\ Whole(CancelVotes(v))
         /\ Whole(DPoSV2ClaimRewardRealWithdraw(v))
         /\ Whole(Record(v))
         /\ Whole(CancelProducer(v))
         /\ Whole(UnregisterCR(v))
         /\ Whole(VotesContent(v))
         /\ Whole(RenewalVotesContent(v))
         /\ Whole(DPoSV2ClaimReward(v))
         /\ Whole(VoteContent(v))
         /\ Whole(PayloadVote(v))
         /\ Whole(PayloadStake(v))
         /\ Whole(Attribute(v))
         /\ Whole(Program(v))
         /\ Whole(CustomIDFeeRateInfo(v))
         /\ Whole(RegisterAsset(v))
         /\ Whole(WithdrawFromSideChain(v))
         /\ Whole(NextTurnDPoSInfo(v))
         /\ Whole(CRCouncilMemberClaimNode(v))
         /\ Whole(VotesWithLockTime(v))
         /\ Whole(UnstakeRealWithdraw(v))
         /\ Whole(RegisterIdentification(v))
         /\ Whole(DIDProofInfo(v))
         /\ Whole(TransactionInput(v))
         /\ Whole(Budget(v))
         /\ Whole(SideChainPow(v))
         /\ Whole(Unstake(v))
         /\ Whole(PayloadCrossChain(v))
         /\ Whole(Asset(v))
         /\ Whole(UpgradeCodeInfo(v))
         /\ Whole(SideChainInfo(v))
         /\ Whole(ProducerInfo(v))
<1>1. Whole(CoinBase(v))
  BY UniformOne, CallsAreCalls DEF CoinBase, Unset
<1>2. Whole(CancelVotes(v))
  BY UniformOne, CallsAreCalls DEF CancelVotes, Unset
<1>3. Whole(DPoSV2ClaimRewardRealWithdraw(v))
  BY UniformOne, CallsAreCalls DEF DPoSV2ClaimRewardRealWithdraw, Unset
<1>4. Whole(Record(v))
  BY UniformTwo, CallsAreCalls DEF Record, Unset
<1>5. Whole(CancelProducer(v))
  BY UniformTwo, CallsAreCalls DEF CancelProducer, Unset
<1>6. Whole(UnregisterCR(v))
  BY UniformTwo, CallsAreCalls DEF UnregisterCR, Unset
<1>7. Whole(VotesContent(v))
  BY UniformTwo, CallsAreCalls DEF VotesContent, Unset
<1>8. Whole(RenewalVotesContent(v))
  BY UniformTwo, CallsAreCalls DEF RenewalVotesContent, Unset
<1>9. Whole(DPoSV2ClaimReward(v))
  BY UniformTwo, CallsAreCalls DEF DPoSV2ClaimReward, Unset
<1>10. Whole(VoteContent(v))
  BY UniformTwo, CallsAreCalls DEF VoteContent, Unset
<1>11. Whole(PayloadVote(v))
  BY UniformTwo, CallsAreCalls DEF PayloadVote, Unset
<1>12. Whole(PayloadStake(v))
  BY UniformTwo, CallsAreCalls DEF PayloadStake, Unset
<1>13. Whole(Attribute(v))
  BY UniformTwo, CallsAreCalls DEF Attribute, Unset
<1>14. Whole(Program(v))
  BY UniformTwo, CallsAreCalls DEF Program, Unset
<1>15. Whole(CustomIDFeeRateInfo(v))
  BY UniformTwo, CallsAreCalls DEF CustomIDFeeRateInfo, Unset
<1>16. Whole(RegisterAsset(v))
  BY UniformThree, CallsAreCalls DEF RegisterAsset, Unset
<1>17. Whole(WithdrawFromSideChain(v))
  BY UniformThree, CallsAreCalls DEF WithdrawFromSideChain, Unset
<1>18. Whole(NextTurnDPoSInfo(v))
  BY UniformThree, CallsAreCalls DEF NextTurnDPoSInfo, Unset
<1>19. Whole(CRCouncilMemberClaimNode(v))
  BY UniformThree, CallsAreCalls DEF CRCouncilMemberClaimNode, Unset
<1>20. Whole(VotesWithLockTime(v))
  BY UniformThree, CallsAreCalls DEF VotesWithLockTime, Unset
<1>21. Whole(UnstakeRealWithdraw(v))
  BY UniformThree, CallsAreCalls DEF UnstakeRealWithdraw, Unset
<1>22. Whole(RegisterIdentification(v))
  BY UniformThree, CallsAreCalls DEF RegisterIdentification, Unset
<1>23. Whole(DIDProofInfo(v))
  BY UniformThree, CallsAreCalls DEF DIDProofInfo, Unset
<1>24. Whole(TransactionInput(v))
  BY UniformThree, CallsAreCalls DEF TransactionInput, Unset
<1>25. Whole(Budget(v))
  BY UniformThree, CallsAreCalls DEF Budget, Unset
<1>26. Whole(SideChainPow(v))
  BY UniformFour, CallsAreCalls DEF SideChainPow, Unset
<1>27. Whole(Unstake(v))
  BY UniformFour, CallsAreCalls DEF Unstake, Unset
<1>28. Whole(PayloadCrossChain(v))
  BY UniformFour, CallsAreCalls DEF PayloadCrossChain, Unset
<1>29. Whole(Asset(v))
  BY UniformFive, CallsAreCalls DEF Asset, Unset
<1>30. Whole(UpgradeCodeInfo(v))
  <2> DEFINE wire == <<Uint32("workingHeight"), VarBytes("nodeVersion"), VarBytes("nodeDownloadUrl"),
                       Hash256("nodeBinHash"), Uint8("force")>>
             json == << <<"WorkingHeight", "workingHeight">>, <<"NodeVersion", "nodeVersion">>,
                        <<"NodeDownloadUrl", "nodeDownloadUrl">>, <<"NodeBinHash", "nodeBinHash">>,
                        <<"Force", "force">> >>
  <2>1. Whole(Uniform(wire, json))
    BY UniformFive, CallsAreCalls DEF Unset
  <2>2. UpgradeCodeInfo(v) = [Uniform(wire, json) EXCEPT !.Comparable = FALSE]
    BY DEF UpgradeCodeInfo
  <2> HIDE DEF wire, json
  <2>. QED BY <2>1, <2>2, WithComparable
<1>31. Whole(SideChainInfo(v))
  BY UniformSix, CallsAreCalls DEF SideChainInfo, Unset
<1>32. Whole(ProducerInfo(v))
  BY UniformSeven, CallsAreCalls DEF ProducerInfo, Unset
<1>. QED BY <1>1, <1>2, <1>3, <1>4, <1>5, <1>6, <1>7, <1>8, <1>9, <1>10, <1>11, <1>12, <1>13, <1>14, <1>15, <1>16, <1>17, <1>18, <1>19, <1>20, <1>21, <1>22, <1>23, <1>24, <1>25, <1>26, <1>27, <1>28, <1>29, <1>30, <1>31, <1>32

LEMMA ConcatThree ==
  ASSUME NEW a, NEW b, NEW c, NEW A, NEW B, NEW C, Listed(a, A), Listed(b, B), Listed(c, C)
  PROVE  Listed(a \o b \o c, A \cup B \cup C)
BY ListedConcat

LEMMA ListedCallMembers ==
  ASSUME NEW l, NEW S, Listed(l, S), AllCalls(S)
  PROVE  MembersOf(l) = MembersIn(S)
BY MembersOfCalls DEF Listed

\* A class that differs from that in what operator= copies, or in the size that it
\* estimates.
LEMMA WithCopy ==
  ASSUME NEW wire, NEW W, Listed(wire, W), AllCalls(W), NEW json, NEW J, Listed(json, J), OneMemberEach(J),
         NEW copy, MembersIn(W) \subseteq copy
  PROVE  Whole([Uniform(wire, json) EXCEPT !.Copy = copy])
<1> DEFINE G == [Uniform(wire, json) EXCEPT !.Copy = copy]
<1>1. /\ G.Serialize = wire /\ G.Deserialize = wire /\ G.ToJson = json /\ G.FromJson = json
      /\ G.Copy = copy /\ G.Equal = MembersOf(wire) /\ G.EstimateSize = wire
  BY DEF Uniform
<1>2. Calls(wire) = W /\ Calls(json) = J /\ IsLayout(wire) /\ MembersOf(wire) = MembersIn(W)
  BY ListedCallMembers DEF Listed
<1> HIDE DEF G
<1>3. Whole(G)
  BY <1>1, <1>2 DEF Whole, Regular, Consistent, WrittenIsCompared, Counted
<1>. QED BY <1>3 DEF G

LEMMA WithEstimate ==
  ASSUME NEW wire, NEW W, Listed(wire, W), AllCalls(W), NEW json, NEW J, Listed(json, J), OneMemberEach(J),
         NEW size, NEW S, Listed(size, S), S # W
  PROVE  AllButSize([Uniform(wire, json) EXCEPT !.EstimateSize = size])
<1> DEFINE G == [Uniform(wire, json) EXCEPT !.EstimateSize = size]
<1>1. /\ G.Serialize = wire /\ G.Deserialize = wire /\ G.ToJson = json /\ G.FromJson = json
      /\ G.Copy = MembersOf(wire) /\ G.Equal = MembersOf(wire) /\ G.EstimateSize = size
  BY DEF Uniform
<1>2. /\ Calls(wire) = W /\ Calls(json) = J /\ IsLayout(wire) /\ MembersOf(wire) = MembersIn(W)
      /\ Calls(size) = S
  BY ListedCallMembers DEF Listed
<1> HIDE DEF G
<1>3. AllButSize(G)
  BY <1>1, <1>2 DEF AllButSize, Regular, Consistent, WrittenIsCompared, Counted
<1>. QED BY <1>3 DEF G

LEMMA TransferInfoClass ==
  ASSUME NEW v
  PROVE  AllButSize(TransferInfo(v))
<1> DEFINE W == {VarBytes("crossChainAddress"), VarUint("outputIndex"), Uint64("crossChainAmount")}
           J == {<<"CrossChainAddress", "crossChainAddress">>, <<"OutputIndex", "outputIndex">>,
                 <<"CrossChainAmount", "crossChainAmount">>}
           S == {VarBytes("crossChainAddress"), VarUint("outputIndex"), Uint16("outputIndex")}
<1>1. AllCalls(W) /\ OneMemberEach(J) /\ S # W
  <2>1. AllCalls(W)
    BY CallsAreCalls DEF AllCalls, Unset
  <2>2. OneMemberEach(J)
    BY DEF OneMemberEach
  <2>3. Uint64("crossChainAmount") \notin S
    BY DEF Uint64, VarBytes, VarUint, Uint16
  <2>. QED BY <2>1, <2>2, <2>3
<1>2. /\ Listed(<<VarBytes("crossChainAddress"), VarUint("outputIndex"), Uint64("crossChainAmount")>>, W)
      /\ Listed(<< <<"CrossChainAddress", "crossChainAddress">>, <<"OutputIndex", "outputIndex">>,
                   <<"CrossChainAmount", "crossChainAmount">> >>, J)
      /\ Listed(<<VarBytes("crossChainAddress"), VarUint("outputIndex"), Uint16("outputIndex")>>, S)
  BY ListedThree, Zenon
<1> HIDE DEF W, J, S
<1>. QED BY <1>1, <1>2, WithEstimate DEF TransferInfo

LEMMA CRCProposalRealWithdrawClass ==
  ASSUME NEW v
  PROVE  AllButSize(CRCProposalRealWithdraw(v))
<1> DEFINE call == Nested("Hash256[]", "withdrawTxHashes")
           J == {<<"WithdrawTxHashes", "withdrawTxHashes">>}
           S == {Uint16(Unset), call}
<1>1. AllCalls({call}) /\ OneMemberEach(J) /\ S # {call}
  <2>1. AllCalls({call})
    BY CallsAreCalls DEF AllCalls, Unset
  <2>2. OneMemberEach(J)
    BY DEF OneMemberEach
  <2>3. Uint16(Unset) # call
    BY DEF Uint16, Nested
  <2>. QED BY <2>1, <2>2, <2>3
<1>2. /\ Listed(<<call>>, {call}) /\ Listed(<< <<"WithdrawTxHashes", "withdrawTxHashes">> >>, J)
      /\ Listed(<<Uint16(Unset), call>>, S)
  BY ListedOne, ListedTwo, Zenon
<1> HIDE DEF J, S
<1>. QED BY <1>1, <1>2, WithEstimate DEF CRCProposalRealWithdraw

LEMMA DIDInfoClass ==
  ASSUME NEW v
  PROVE  AllButSize(DIDInfo(v))
<1> DEFINE W == {Nested("DIDHeaderInfo", "header"), VarBytes("payload"), Nested("DIDProofInfo", "proof")}
           J == {<<"header", "header">>, <<"payload", "payload">>, <<"proof", "proof">>}
           S == {Nested("DIDHeaderInfo", "header"), <<"Bytes", "payload">>, Nested("DIDProofInfo", "proof")}
<1>1. AllCalls(W) /\ OneMemberEach(J) /\ S # W
  <2>1. AllCalls(W)
    BY CallsAreCalls DEF AllCalls, Unset
  <2>2. OneMemberEach(J)
    BY DEF OneMemberEach
  <2>3. VarBytes("payload") \notin S
    BY DEF VarBytes, Nested
  <2>. QED BY <2>1, <2>2, <2>3
<1>2. /\ Listed(<<Nested("DIDHeaderInfo", "header"), VarBytes("payload"), Nested("DIDProofInfo", "proof")>>, W)
      /\ Listed(<< <<"header", "header">>, <<"payload", "payload">>, <<"proof", "proof">> >>, J)
      /\ Listed(<<Nested("DIDHeaderInfo", "header"), <<"Bytes", "payload">>, Nested("DIDProofInfo", "proof")>>, S)
  BY ListedThree, Zenon
<1> HIDE DEF W, J, S
<1>. QED BY <1>1, <1>2, WithEstimate DEF DIDInfo

LEMMA TransferCrossChainAssetClass ==
  ASSUME NEW v
  PROVE  Whole(TransferCrossChainAsset(v))
<1> DEFINE wire == When(v = 0, <<Nested("TransferInfo[]", "info")>>)
           json == When(v = 0, << <<"", "info">> >>)
           W == IF v = 0 THEN {Nested("TransferInfo[]", "info")} ELSE {}
           J == IF v = 0 THEN {<<"", "info">>} ELSE {}
<1>1. Listed(wire, W) /\ Listed(json, J)
  BY ListedOne, ListedWhen, Zenon
<1>2. AllCalls(W) /\ MembersIn(W) \subseteq {"info"}
  <2>1. AllCalls(W)
    BY CallsAreCalls DEF AllCalls, Unset
  <2>2. MembersIn(W) \subseteq {"info"}
    BY DEF MembersIn, Nested
  <2>. QED BY <2>1, <2>2
<1>3. OneMemberEach(J)
  BY DEF OneMemberEach
<1>4. TransferCrossChainAsset(v) = [Uniform(wire, json) EXCEPT !.Copy = {"info"}, !.Comparable = v \in {0, 1}]
  BY DEF TransferCrossChainAsset
<1> DEFINE G == TransferCrossChainAsset(v)
<1> HIDE DEF W, J, wire, json, G
<1>5. /\ G.Serialize = wire /\ G.Deserialize = wire /\ G.ToJson = json /\ G.FromJson = json
      /\ G.Copy = {"info"} /\ G.Equal = MembersOf(wire) /\ G.EstimateSize = wire
  BY <1>4 DEF Uniform, G
<1>6. Calls(wire) = W /\ Calls(json) = J /\ IsLayout(wire) /\ MembersOf(wire) = MembersIn(W)
  BY <1>1, <1>2, ListedCallMembers DEF Listed
<1>7. Whole(G)
  BY <1>2, <1>3, <1>5, <1>6 DEF Whole, Regular, Consistent, WrittenIsCompared, Counted
<1>. QED BY <1>7 DEF G

LEMMA VotingClass ==
  ASSUME NEW v
  PROVE  Whole(Voting(v))
<1> DEFINE wire == When(v = 0, <<Nested("VotesContent[]", "contents")>>)
                   \o When(v = 1, <<Nested("RenewalVotesContent[]", "renewalVotesContent")>>)
           json == When(v = 0, << <<"Contents", "contents">> >>)
                   \o When(v = 1, << <<"RenewalVotesContent", "renewalVotesContent">> >>)
           W == (IF v = 0 THEN {Nested("VotesContent[]", "contents")} ELSE {})
                \cup (IF v = 1 THEN {Nested("RenewalVotesContent[]", "renewalVotesContent")} ELSE {})
           J == (IF v = 0 THEN {<<"Contents", "contents">>} ELSE {})
                \cup (IF v = 1 THEN {<<"RenewalVotesContent", "renewalVotesContent">>} ELSE {})
<1>1. Listed(wire, W) /\ Listed(json, J)
  BY ListedOne, ListedWhen, ListedConcat, Zenon
<1>2. AllCalls(W) /\ MembersIn(W) \subseteq {"contents", "renewalVotesContent"}
  <2>1. AllCalls(W)
    BY CallsAreCalls DEF AllCalls, Unset
  <2>2. MembersIn(W) \subseteq {"contents", "renewalVotesContent"}
    BY DEF MembersIn, Nested
  <2>. QED BY <2>1, <2>2
<1>3. OneMemberEach(J)
  BY DEF OneMemberEach
<1>4. Voting(v) = [Uniform(wire, json) EXCEPT !.Copy = {"contents", "renewalVotesContent"}]
  BY DEF Voting
<1> HIDE DEF W, J, wire, json
<1>. QED BY <1>1, <1>2, <1>3, <1>4, WithCopy

LEMMA CRCProposalWithdrawClass ==
  ASSUME NEW v
  PROVE  Whole(CRCProposalWithdraw(v))
<1> DEFINE wire == <<Hash256("proposalHash"), VarBytes("ownerPubkey")>>
                   \o When(v = 1, <<Hash168("recipient"), Uint64("amount")>>) \o <<VarBytes("signature")>>
           json == << <<"ProposalHash", "proposalHash">>, <<"OwnerPublicKey", "ownerPubkey">> >>
                   \o When(v = 1, << <<"Recipient", "recipient">>, <<"Amount", "amount">> >>)
                   \o << <<"Signature", "signature">> >>
           W == {Hash256("proposalHash"), VarBytes("ownerPubkey")}
                \cup (IF v = 1 THEN {Hash168("recipient"), Uint64("amount")} ELSE {})
                \cup {VarBytes("signature")}
           J == {<<"ProposalHash", "proposalHash">>, <<"OwnerPublicKey", "ownerPubkey">>}
                \cup (IF v = 1 THEN {<<"Recipient", "recipient">>, <<"Amount", "amount">>} ELSE {})
                \cup {<<"Signature", "signature">>}
           copy == MembersOf(wire) \cup {"recipient", "amount"}
           equal == MembersOf(wire) \cup IF v >= 1 THEN {"recipient", "amount"} ELSE {}
           G == CRCProposalWithdraw(v)
<1>1. Listed(wire, W) /\ Listed(json, J)
  BY ListedOne, ListedTwo, ListedWhen, ConcatThree, Zenon
<1>2. AllCalls(W)
  BY CallsAreCalls DEF AllCalls, Unset
<1>3. OneMemberEach(J)
  BY DEF OneMemberEach
<1>4. \A m \in {"recipient", "amount"} : m \in MembersIn(W) \/ m \notin MembersIn(J)
  <2>1. CASE v = 1
    <3>1. /\ Hash168("recipient") \in W /\ Hash168("recipient")[2] = "recipient"
          /\ Uint64("amount") \in W /\ Uint64("amount")[2] = "amount"
      BY <2>1, CallMembers
    <3>. QED BY <3>1 DEF MembersIn
  <2>2. CASE v # 1
    <3>1. \A p \in J : p[2] \notin {"recipient", "amount"}
      BY <2>2
    <3>. QED BY <3>1 DEF MembersIn
  <2>. QED BY <2>1, <2>2
<1>5. G = [Uniform(wire, json) EXCEPT !.Copy = copy, !.Equal = equal]
  BY DEF CRCProposalWithdraw
<1>6. /\ MembersOf(wire) \subseteq equal /\ equal \subseteq MembersOf(wire) \cup {"recipient", "amount"}
      /\ copy = MembersOf(wire) \cup {"recipient", "amount"}
  OBVIOUS
<1> HIDE DEF W, J, wire, json, G, copy, equal
<1>7. /\ G.Serialize = wire /\ G.Deserialize = wire /\ G.ToJson = json /\ G.FromJson = json
      /\ G.Copy = copy /\ G.Equal = equal /\ G.EstimateSize = wire
  BY <1>5 DEF Uniform
<1>8. Calls(wire) = W /\ Calls(json) = J /\ IsLayout(wire) /\ MembersOf(wire) = MembersIn(W)
  BY <1>1, <1>2, ListedCallMembers DEF Listed
<1>9. Whole(G)
  BY <1>2, <1>3, <1>4, <1>6, <1>7, <1>8 DEF Whole, Regular, Consistent, WrittenIsCompared, Counted
<1>. QED BY <1>9 DEF G

LEMMA CRCProposalReviewClass ==
  ASSUME NEW v
  PROVE  Whole(CRCProposalReview(v))
<1> DEFINE wire == <<Hash256("proposalHash"), Uint8("voteResult"), Hash256("opinionHash")>>
                   \o When(v >= 1, <<VarBytes("opinionData")>>)
                   \o <<Hash168("did"), VarBytes("signature")>>
           json == << <<"ProposalHash", "proposalHash">>, <<"VoteResult", "voteResult">>,
                      <<"OpinionHash", "opinionHash">> >>
                   \o When(v >= 1, << <<"OpinionData", "opinionData">> >>)
                   \o << <<"DID", "did">>, <<"Signature", "signature">> >>
           W == {Hash256("proposalHash"), Uint8("voteResult"), Hash256("opinionHash")}
                \cup (IF v >= 1 THEN {VarBytes("opinionData")} ELSE {})
                \cup {Hash168("did"), VarBytes("signature")}
           J == {<<"ProposalHash", "proposalHash">>, <<"VoteResult", "voteResult">>,
                 <<"OpinionHash", "opinionHash">>}
                \cup (IF v >= 1 THEN {<<"OpinionData", "opinionData">>} ELSE {})
                \cup {<<"DID", "did">>, <<"Signature", "signature">>}
<1>1. Listed(wire, W) /\ Listed(json, J)
  BY ListedOne, ListedTwo, ListedThree, ListedWhen, ConcatThree, Zenon
<1>2. AllCalls(W)
  BY CallsAreCalls DEF AllCalls, Unset
<1>3. OneMemberEach(J)
  BY DEF OneMemberEach
<1>4. CRCProposalReview(v) = [Uniform(wire, json) EXCEPT !.Copy = MembersOf(wire) \cup {"opinionData"}]
  BY DEF CRCProposalReview
<1> HIDE DEF W, J, wire, json
<1>5. MembersIn(W) \subseteq MembersOf(wire) \cup {"opinionData"}
  BY <1>1, <1>2, ListedCallMembers
<1>. QED BY <1>1, <1>2, <1>3, <1>4, <1>5, WithCopy

LEMMA RechargeToSideChainClass ==
  ASSUME NEW v \in Nat
  PROVE  /\ v \in {0, 1} => Whole(RechargeToSideChain(v))
         /\ v > 1 => Blank(RechargeToSideChain(v))
<1> DEFINE wire == When(v = 0, <<VarBytes("merkeProof"), VarBytes("mainChainTransaction")>>)
                   \o When(v = 1, <<Hash256("mainChainTxHash")>>)
           json == When(v = 0, << <<"MerkleProof", "merkeProof">>,
                                  <<"MainChainTransaction", "mainChainTransaction">> >>)
                   \o When(v = 1, << <<"MainChainTxHash", "mainChainTxHash">> >>)
           W == (IF v = 0 THEN {VarBytes("merkeProof"), VarBytes("mainChainTransaction")} ELSE {})
                \cup (IF v = 1 THEN {Hash256("mainChainTxHash")} ELSE {})
           J == (IF v = 0 THEN {<<"MerkleProof", "merkeProof">>,
                                <<"MainChainTransaction", "mainChainTransaction">>} ELSE {})
                \cup (IF v = 1 THEN {<<"MainChainTxHash", "mainChainTxHash">>} ELSE {})
           copy == {"merkeProof", "mainChainTransaction", "mainChainTxHash"}
           G == RechargeToSideChain(v)
<1>1. Listed(wire, W) /\ Listed(json, J)
  BY ListedOne, ListedTwo, ListedWhen, ListedConcat, Zenon
<1>2. AllCalls(W)
  BY CallsAreCalls DEF AllCalls, Unset
<1>3. MembersIn(W) \subseteq copy
  BY DEF MembersIn, VarBytes, Hash256
<1>4. OneMemberEach(J)
  BY DEF OneMemberEach
<1>5. G = [Uniform(wire, json) EXCEPT !.Deserialize = IF v \in {0, 1} THEN wire ELSE Refuse, !.Copy = copy,
                                      !.Comparable = v \in {0, 1}]
  BY DEF RechargeToSideChain
<1>6. v > 1 => W = {}
  OBVIOUS
<1> HIDE DEF W, J, wire, json, G, copy
<1>7. /\ G.Serialize = wire /\ G.Deserialize = (IF v \in {0, 1} THEN wire ELSE Refuse)
      /\ G.ToJson = json /\ G.FromJson = json
      /\ G.Copy = copy /\ G.Equal = MembersOf(wire) /\ G.EstimateSize = wire
  BY <1>5 DEF Uniform
<1>8. Calls(wire) = W /\ Calls(json) = J /\ IsLayout(wire) /\ MembersOf(wire) = MembersIn(W)
  BY <1>1, <1>2, ListedCallMembers DEF Listed
<1>9. v \in {0, 1} => Whole(G)
  BY <1>2, <1>3, <1>4, <1>7, <1>8 DEF Whole, Regular, Consistent, WrittenIsCompared, Counted
<1>10. v > 1 => Blank(G)
  <2> SUFFICES ASSUME v > 1 PROVE Blank(G)
    OBVIOUS
  <2>1. MembersIn({}) = {}
    BY DEF MembersIn
  <2>. QED BY <1>6, <1>7, <1>8, <2>1 DEF Blank, Counted
<1>. QED BY <1>9, <1>10 DEF G

LEMMA CRInfoClass ==
  ASSUME NEW v \in Nat
  PROVE  /\ Regular(CRInfo(v)) /\ Counted(CRInfo(v))
         /\ v # 1 => WrittenIsCompared(CRInfo(v))
         /\ MembersIn(Calls(CRInfo(v).Serialize)) \subseteq CRInfo(v).Equal \cup {"did"}
<1> DEFINE wire == <<VarBytes("code"), Hash168("cid")>> \o When(v > CRInfoVersion, <<Hash168("did")>>)
                   \o <<VarBytes("nickName"), VarBytes("url"), Uint64("location"), VarBytes("signature")>>
           json == << <<"Code", "code">>, <<"CID", "cid">>, <<"DID", "did">>, <<"NickName", "nickName">>,
                      <<"Url", "url">>, <<"Location", "location">>, <<"Signature", "signature">> >>
           W == {VarBytes("code"), Hash168("cid")}
                \cup (IF v > CRInfoVersion THEN {Hash168("did")} ELSE {})
                \cup {VarBytes("nickName"), VarBytes("url"), Uint64("location"), VarBytes("signature")}
           J == {<<"Code", "code">>, <<"CID", "cid">>, <<"DID", "did">>, <<"NickName", "nickName">>,
                 <<"Url", "url">>, <<"Location", "location">>, <<"Signature", "signature">>}
           equal == (MembersOf(wire) \ {"did"}) \cup IF v > CRInfoDIDVersion THEN {"did"} ELSE {}
           copy == MembersOf(wire) \cup {"did"}
           G == CRInfo(v)
<1>1. Listed(wire, W) /\ Listed(json, J)
  <2>1. Listed(wire, W)
    BY ListedOne, ListedTwo, ListedFour, ListedWhen, ConcatThree, Zenon
  <2>2. Listed(json, J)
    BY ListedSeven, Zenon
  <2>. QED BY <2>1, <2>2
<1>2. AllCalls(W)
  BY CallsAreCalls DEF AllCalls, Unset
<1>3. OneMemberEach(J)
  BY DEF OneMemberEach
<1>4. "did" \in MembersIn(W) <=> v > 0
  <2>1. CASE v > 0
    <3>1. Hash168("did") \in W /\ Hash168("did")[2] = "did"
      BY <2>1, CallMembers DEF CRInfoVersion
    <3>. QED BY <2>1, <3>1 DEF MembersIn
  <2>2. CASE ~ v > 0
    <3>1. \A c \in W : c[2] # "did"
      BY <2>2 DEF CRInfoVersion, VarBytes, Hash168, Uint64
    <3>. QED BY <2>2, <3>1 DEF MembersIn
  <2>. QED BY <2>1, <2>2
<1>5. G = [Uniform(wire, json) EXCEPT !.Copy = copy, !.Equal = equal]
  BY DEF CRInfo
<1>6. /\ equal = (MembersOf(wire) \ {"did"}) \cup IF v > 1 THEN {"did"} ELSE {}
      /\ copy = MembersOf(wire) \cup {"did"}
  BY DEF CRInfoDIDVersion
<1> HIDE DEF W, J, wire, json, G, copy, equal
<1>7. /\ G.Serialize = wire /\ G.Deserialize = wire /\ G.ToJson = json /\ G.FromJson = json
      /\ G.Copy = copy /\ G.Equal = equal /\ G.EstimateSize = wire
  BY <1>5 DEF Uniform
<1>8. Calls(wire) = W /\ Calls(json) = J /\ IsLayout(wire) /\ MembersOf(wire) = MembersIn(W)
  BY <1>1, <1>2, ListedCallMembers DEF Listed
<1>9. equal \subseteq MembersIn(W) /\ MembersIn(W) \subseteq equal \cup {"did"}
  BY <1>4, <1>6, <1>8
<1>10. Regular(G) /\ Counted(G)
  BY <1>2, <1>3, <1>6, <1>7, <1>8, <1>9 DEF Regular, Consistent, Counted
<1>11. v # 1 => WrittenIsCompared(G)
  BY <1>4, <1>6, <1>7, <1>8 DEF WrittenIsCompared
<1>12. MembersIn(Calls(G.Serialize)) \subseteq G.Equal \cup {"did"}
  BY <1>7, <1>8, <1>9
<1>. QED BY <1>10, <1>11, <1>12 DEF G

LEMMA DIDHeaderInfoClass ==
  ASSUME NEW v
  PROVE  Whole(DIDHeaderInfo(v))
<1> DEFINE wire == <<VarBytes("specification"), VarBytes("operation")>>
                   \o When(v = UpdateDID, <<VarBytes("previousTxid")>>)
           json == << <<"specification", "specification">>, <<"operation", "operation">> >>
                   \o When(v = UpdateDID, << <<"previousTxid", "previousTxid">> >>)
           W == {VarBytes("specification"), VarBytes("operation")}
                \cup (IF v = UpdateDID THEN {VarBytes("previousTxid")} ELSE {})
           J == {<<"specification", "specification">>, <<"operation", "operation">>}
                \cup (IF v = UpdateDID THEN {<<"previousTxid", "previousTxid">>} ELSE {})
           all == MembersOf(wire) \cup {"previousTxid"}
           G == DIDHeaderInfo(v)
<1>1. Listed(wire, W) /\ Listed(json, J)
  BY ListedOne, ListedTwo, ListedWhen, ListedConcat, Zenon
<1>2. AllCalls(W)
  BY CallsAreCalls DEF AllCalls, Unset
<1>3. OneMemberEach(J)
  BY DEF OneMemberEach
<1>4. "previousTxid" \in MembersIn(W) \/ "previousTxid" \notin MembersIn(J)
  <2>1. CASE v = UpdateDID
    <3>1. VarBytes("previousTxid") \in W /\ VarBytes("previousTxid")[2] = "previousTxid"
      BY <2>1, CallMembers
    <3>. QED BY <3>1 DEF MembersIn
  <2>2. CASE v # UpdateDID
    <3>1. \A p \in J : p[2] # "previousTxid"
      BY <2>2
    <3>. QED BY <3>1 DEF MembersIn
  <2>. QED BY <2>1, <2>2
<1>5. G = [Uniform(wire, json) EXCEPT !.Copy = all, !.Equal = all]
  BY DEF DIDHeaderInfo
<1>6. all = MembersOf(wire) \cup {"previousTxid"}
  OBVIOUS
<1> HIDE DEF W, J, wire, json, G, all
<1>7. /\ G.Serialize = wire /\ G.Deserialize = wire /\ G.ToJson = json /\ G.FromJson = json
      /\ G.Copy = all /\ G.Equal = all /\ G.EstimateSize = wire
  BY <1>5 DEF Uniform
<1>8. Calls(wire) = W /\ Calls(json) = J /\ IsLayout(wire) /\ MembersOf(wire) = MembersIn(W)
  BY <1>1, <1>2, ListedCallMembers DEF Listed
<1>9. Whole(G)
  BY <1>2, <1>3, <1>4, <1>6, <1>7, <1>8 DEF Whole, Regular, Consistent, WrittenIsCompared, Counted
<1>. QED BY <1>9 DEF G

LEMMA CandidateVotesClass ==
  ASSUME NEW v \in Nat
  PROVE  IF v >= 1 THEN AllButSize(CandidateVotes(v)) ELSE Whole(CandidateVotes(v))
<1> DEFINE wire == <<VarBytes("candidate")>> \o When(v >= 1, <<Uint64("votes")>>)
           json == << <<"Candidate", "candidate">> >> \o When(v >= 1, << <<"Votes", "votes">> >>)
           size == <<VarBytes("candidate")>> \o When(v >= 1, <<VarUint("votes")>>)
           W == {VarBytes("candidate")} \cup (IF v >= 1 THEN {Uint64("votes")} ELSE {})
           J == {<<"Candidate", "candidate">>} \cup (IF v >= 1 THEN {<<"Votes", "votes">>} ELSE {})
           S == {VarBytes("candidate")} \cup (IF v >= 1 THEN {VarUint("votes")} ELSE {})
           all == {"candidate", "votes"}
           G == CandidateVotes(v)
<1>1. Listed(wire, W) /\ Listed(json, J) /\ Listed(size, S)
  BY ListedOne, ListedWhen, ListedConcat, Zenon
<1>2. AllCalls(W)
  BY CallsAreCalls DEF AllCalls, Unset
<1>3. OneMemberEach(J)
  BY DEF OneMemberEach
<1>4. MembersIn(W) \subseteq all /\ \A m \in all : m \in MembersIn(W) \/ m \notin MembersIn(J)
  <2>1. MembersIn(W) \subseteq all
    <3>1. \A c \in W : c[2] \in all
      BY DEF VarBytes, Uint64
    <3>. QED BY <3>1 DEF MembersIn
  <2>2. "candidate" \in MembersIn(W)
    <3>1. VarBytes("candidate") \in W /\ VarBytes("candidate")[2] = "candidate"
      BY CallMembers
    <3>. QED BY <3>1 DEF MembersIn
  <2>3. "votes" \in MembersIn(W) \/ "votes" \notin MembersIn(J)
    <3>1. CASE v >= 1
      <4>1. Uint64("votes") \in W /\ Uint64("votes")[2] = "votes"
        BY <3>1, CallMembers
      <4>. QED BY <4>1 DEF MembersIn
    <3>2. CASE ~ v >= 1
      <4>1. \A p \in J : p[2] # "votes"
        BY <3>2
      <4>. QED BY <4>1 DEF MembersIn
    <3>. QED BY <3>1, <3>2
  <2>. QED BY <2>1, <2>2, <2>3
<1>5. S = W <=> ~ v >= 1
  <2>1. VarBytes("candidate") # Uint64("votes") /\ VarUint("votes") # Uint64("votes")
    BY DEF VarBytes, Uint64, VarUint
  <2>. QED BY <2>1
<1>6. G = [Uniform(wire, json) EXCEPT !.Copy = all, !.Equal = all, !.EstimateSize = size]
  BY DEF CandidateVotes
<1> HIDE DEF W, J, S, wire, json, size, G, all
<1>7. /\ G.Serialize = wire /\ G.Deserialize = wire /\ G.ToJson = json /\ G.FromJson = json
      /\ G.Copy = all /\ G.Equal = all /\ G.EstimateSize = size
  BY <1>6 DEF Uniform
<1>8. Calls(wire) = W /\ Calls(json) = J /\ IsLayout(wire) /\ Calls(size) = S
  BY <1>1 DEF Listed
<1>9. Regular(G) /\ WrittenIsCompared(G) /\ (Counted(G) <=> ~ v >= 1)
  BY <1>2, <1>3, <1>4, <1>5, <1>7, <1>8 DEF Regular, Consistent, WrittenIsCompared, Counted
<1>. QED BY <1>9 DEF G, Whole, AllButSize

\* Deserialize of the tracking payload names the calls in one list, Serialize goes
\* through the functions of the three signers.
LEMMA TrackingCalls ==
  ASSUME NEW v
  PROVE  LET W == {Hash256("proposalHash"), Hash256("messageHash")}
                  \cup (IF v >= 1 THEN {VarBytes("messageData")} ELSE {})
                  \cup {Uint8("stage"), VarBytes("ownerPubKey"), VarBytes("newOwnerPubKey"),
                        VarBytes("ownerSign"), VarBytes("newOwnerSign"), Uint8("type"),
                        Hash256("secretaryGeneralOpinionHash")}
                  \cup (IF v >= 1 THEN {VarBytes("secretaryGeneralOpinionData")} ELSE {})
                  \cup {VarBytes("secretaryGeneralSignature")}
         IN  /\ CRCProposalTracking(v).Deserialize = CRCProposalTracking(v).Serialize
             /\ Listed(CRCProposalTracking(v).Serialize, W) /\ AllCalls(W)
<1> DEFINE head == <<Hash256("proposalHash"), Hash256("messageHash")>>
           text == When(v >= 1, <<VarBytes("messageData")>>)
           own == <<Uint8("stage"), VarBytes("ownerPubKey"), VarBytes("newOwnerPubKey")>>
           new == <<VarBytes("ownerSign")>>
           sec == <<VarBytes("newOwnerSign"), Uint8("type"), Hash256("secretaryGeneralOpinionHash")>>
           more == When(v >= 1, <<VarBytes("secretaryGeneralOpinionData")>>)
           last == <<VarBytes("secretaryGeneralSignature")>>
           seven == <<Uint8("stage"), VarBytes("ownerPubKey"), VarBytes("newOwnerPubKey"),
                      VarBytes("ownerSign"), VarBytes("newOwnerSign"), Uint8("type"),
                      Hash256("secretaryGeneralOpinionHash")>>
           HeadSet == {Hash256("proposalHash"), Hash256("messageHash")}
           TextSet == IF v >= 1 THEN {VarBytes("messageData")} ELSE {}
           SevenSet == {Uint8("stage"), VarBytes("ownerPubKey"), VarBytes("newOwnerPubKey"),
                     VarBytes("ownerSign"), VarBytes("newOwnerSign"), Uint8("type"),
                     Hash256("secretaryGeneralOpinionHash")}
           MoreSet == IF v >= 1 THEN {VarBytes("secretaryGeneralOpinionData")} ELSE {}
           LastSet == {VarBytes("secretaryGeneralSignature")}
           front == head \o text
<1>1. Listed(head, HeadSet) /\ Listed(text, TextSet) /\ Listed(more, MoreSet) /\ Listed(last, LastSet)
  BY ListedOne, ListedTwo, ListedWhen, Zenon
<1>2. Listed(seven, SevenSet)
  BY ListedSeven, Zenon
<1>3. IsLayout(own) /\ IsLayout(new) /\ IsLayout(sec)
  BY LayoutOfOne, LayoutOfThree, Zenon
<1>4. AllCalls(HeadSet \cup TextSet \cup SevenSet \cup MoreSet \cup LastSet)
  BY CallsAreCalls DEF AllCalls, Unset
<1>5. seven = (own \o new) \o sec
  OBVIOUS
<1>6. /\ CRCProposalTracking(v).Serialize = ((((front \o own) \o new) \o sec) \o more) \o last
      /\ CRCProposalTracking(v).Deserialize = ((front \o seven) \o more) \o last
  BY DEF CRCProposalTracking, TrackingSecretaryUnsigned, TrackingNewOwnerUnsigned, TrackingOwnerUnsigned,
     Uniform
<1> HIDE DEF head, text, own, new, sec, more, last, seven, HeadSet, TextSet, SevenSet, MoreSet, LastSet
<1>7. Listed(front, HeadSet \cup TextSet)
  BY <1>1, ListedConcat
<1> HIDE DEF front
<1>8. ((front \o own) \o new) \o sec = front \o seven
  <2>1. IsLayout(own \o new) /\ IsLayout(front)
    BY <1>3, <1>7, LayoutConcat DEF Listed
  <2>2. (front \o own) \o new = front \o (own \o new)
    BY <1>3, <2>1, ConcatAssoc
  <2> DEFINE two == own \o new
  <2> HIDE DEF two
  <2>3. (front \o two) \o sec = front \o (two \o sec)
    BY <1>3, <2>1, ConcatAssoc DEF two
  <2>. QED BY <1>5, <2>2, <2>3 DEF two
<1>9. Listed(((front \o seven) \o more) \o last, HeadSet \cup TextSet \cup SevenSet \cup MoreSet \cup LastSet)
  BY <1>1, <1>2, <1>7, ListedConcat
<1>. QED BY <1>4, <1>6, <1>8, <1>9, Zenon DEF HeadSet, TextSet, SevenSet, MoreSet, LastSet

LEMMA TrackingKeys ==
  ASSUME NEW v
  PROVE  \E J : Listed(CRCProposalTracking(v).FromJson, J) /\ OneMemberEach(J)
<1> DEFINE head == << <<"ProposalHash", "proposalHash">>, <<"MessageHash", "messageHash">> >>
           text == When(v >= 1, << <<"MessageData", "messageData">> >>)
           seven == << <<"Stage", "stage">>, <<"OwnerPublicKey", "ownerPubKey">>,
                       <<"NewOwnerPublicKey", "newOwnerPubKey">>, <<"OwnerSignature", "ownerSign">>,
                       <<"NewOwnerSignature", "newOwnerSign">>, <<"Type", "type">>,
                       <<"SecretaryGeneralOpinionHash", "secretaryGeneralOpinionHash">> >>
           more == When(v >= 1, << <<"SecretaryGeneralOpinionData", "secretaryGeneralOpinionData">> >>)
           last == << <<"SecretaryGeneralSignature", "secretaryGeneralSignature">> >>
           HeadSet == {<<"ProposalHash", "proposalHash">>, <<"MessageHash", "messageHash">>}
           TextSet == IF v >= 1 THEN {<<"MessageData", "messageData">>} ELSE {}
           SevenSet == {<<"Stage", "stage">>, <<"OwnerPublicKey", "ownerPubKey">>,
                     <<"NewOwnerPublicKey", "newOwnerPubKey">>, <<"OwnerSignature", "ownerSign">>,
                     <<"NewOwnerSignature", "newOwnerSign">>, <<"Type", "type">>,
                     <<"SecretaryGeneralOpinionHash", "secretaryGeneralOpinionHash">>}
           MoreSet == IF v >= 1 THEN {<<"SecretaryGeneralOpinionData", "secretaryGeneralOpinionData">>} ELSE {}
           LastSet == {<<"SecretaryGeneralSignature", "secretaryGeneralSignature">>}
<1>1. Listed(head, HeadSet) /\ Listed(text, TextSet) /\ Listed(more, MoreSet) /\ Listed(last, LastSet)
  BY ListedOne, ListedTwo, ListedWhen, Zenon
<1>2. Listed(seven, SevenSet)
  BY ListedSeven, Zenon
<1>3. OneMemberEach(HeadSet \cup TextSet \cup SevenSet \cup MoreSet \cup LastSet)
  BY DEF OneMemberEach
<1>4. CRCProposalTracking(v).FromJson = (((head \o text) \o seven) \o more) \o last
  BY DEF CRCProposalTracking, Uniform
<1> HIDE DEF head, text, seven, more, last, HeadSet, TextSet, SevenSet, MoreSet, LastSet
<1>5. Listed((((head \o text) \o seven) \o more) \o last, HeadSet \cup TextSet \cup SevenSet \cup MoreSet \cup LastSet)
  BY <1>1, <1>2, ListedConcat
<1>. QED BY <1>3, <1>4, <1>5

LEMMA CRCProposalTrackingClass ==
  ASSUME NEW v
  PROVE  Whole(CRCProposalTracking(v))
<1> DEFINE G == CRCProposalTracking(v)
<1>1. PICK W : G.Deserialize = G.Serialize /\ Listed(G.Serialize, W) /\ AllCalls(W)
  BY TrackingCalls
<1>2. PICK J : Listed(G.FromJson, J) /\ OneMemberEach(J)
  BY TrackingKeys
<1>3. /\ G.Equal = MembersOf(G.Serialize) /\ G.EstimateSize = G.Serialize /\ G.ToJson = G.FromJson
      /\ G.Copy = MembersOf(G.Serialize) \cup {"messageData", "secretaryGeneralOpinionData"}
  BY DEF CRCProposalTracking, Uniform
<1> HIDE DEF G
<1>4. Calls(G.Serialize) = W /\ Calls(G.FromJson) = J /\ IsLayout(G.Serialize) /\ MembersOf(G.Serialize) = MembersIn(W)
  BY <1>1, <1>2, ListedCallMembers DEF Listed
<1>5. Whole(G)
  BY <1>1, <1>2, <1>3, <1>4 DEF Whole, Regular, Consistent, WrittenIsCompared, Counted
<1>. QED BY <1>5 DEF G

(***************************************************************************)
(* The proposals.  Every key of every type stands for one member, so that  *)
(* the keys of one type cannot get in each other's way.                    *)
(***************************************************************************)
SignedTypes == ProposalTypes \ UpgradeTypes

AllKeys ==
  {<<"Type", "type">>, <<"CategoryData", "categoryData">>, <<"OwnerPublicKey", "ownerPublicKey">>,
   <<"DraftHash", "draftHash">>, <<"DraftData", "draftData">>, <<"Budgets", "budgets">>,
   <<"Recipient", "recipient">>, <<"TargetProposalHash", "targetProposalHash">>,
   <<"NewRecipient", "newRecipient">>, <<"NewOwnerPublicKey", "newOwnerPublicKey">>,
   <<"SecretaryGeneralPublicKey", "secretaryPublicKey">>, <<"SecretaryGeneralDID", "secretaryDID">>,
   <<"ReservedCustomIDList", "reservedCustomIDList">>, <<"ReceivedCustomIDList", "receivedCustomIDList">>,
   <<"ReceiverDID", "receiverDID">>, <<"CustomIDFeeRateInfo", "customIDFeeRateInfo">>,
   <<"SidechainInfo", "sidechainInfo">>, <<"Signature", "signature">>,
   <<"NewOwnerSignature", "newOwnerSignature">>, <<"SecretaryGeneralSignature", "secretarySignature">>,
   <<"CRCouncilMemberDID", "crCouncilMemberDID">>,
   <<"CRCouncilMemberSignature", "crCouncilMemberSignature">>}

LEMMA AllKeysApart == OneMemberEach(AllKeys)
BY DEF OneMemberEach, AllKeys

\* What a proposal needs of the body of its type, and of the keys of that.
Fitting(body, keys) ==
  /\ IsLayout(body) /\ AllCalls(Calls(body)) /\ MembersIn(Calls(body)) \subseteq Copied
  /\ IsLayout(keys) /\ Calls(keys) \subseteq AllKeys

LEMMA FittingOne ==
  ASSUME NEW a, IsCall(a), a[2] \in Copied, NEW p \in AllKeys
  PROVE  Fitting(<<a>>, <<p>>)
<1>1. Listed(<<a>>, {a}) /\ Listed(<<p>>, {p})
  BY ListedOne
<1>. QED BY <1>1 DEF Fitting, Listed, AllCalls, MembersIn

LEMMA FittingTwo ==
  ASSUME NEW a, NEW b, IsCall(a), IsCall(b), a[2] \in Copied, b[2] \in Copied,
         NEW p \in AllKeys, NEW q \in AllKeys
  PROVE  Fitting(<<a, b>>, <<p, q>>)
<1>1. Listed(<<a, b>>, {a, b}) /\ Listed(<<p, q>>, {p, q})
  BY ListedTwo
<1>. QED BY <1>1 DEF Fitting, Listed, AllCalls, MembersIn

LEMMA FittingThree ==
  ASSUME NEW a, NEW b, NEW c, IsCall(a), IsCall(b), IsCall(c),
         a[2] \in Copied, b[2] \in Copied, c[2] \in Copied,
         NEW p \in AllKeys, NEW q \in AllKeys, NEW r \in AllKeys
  PROVE  Fitting(<<a, b, c>>, <<p, q, r>>)
<1>1. Listed(<<a, b, c>>, {a, b, c}) /\ Listed(<<p, q, r>>, {p, q, r})
  BY ListedThree
<1>. QED BY <1>1 DEF Fitting, Listed, AllCalls, MembersIn

LEMMA BodyFits ==
  ASSUME NEW t \in SignedTypes
  PROVE  Fitting(Body(t), BodyKeys(t))
<1>. /\ "budgets" \in Copied /\ "recipient" \in Copied /\ "targetProposalHash" \in Copied
     /\ "newRecipient" \in Copied /\ "newOwnerPublicKey" \in Copied /\ "secretaryPublicKey" \in Copied
     /\ "secretaryDID" \in Copied /\ "reservedCustomIDList" \in Copied /\ "receivedCustomIDList" \in Copied
     /\ "receiverDID" \in Copied /\ "customIDFeeRateInfo" \in Copied /\ "sidechainInfo" \in Copied
  BY DEF Copied
<1>1. Fitting(NormalOrELIP, NormalOrELIPKeys)
  <2>1. <<"Budgets", "budgets">> \in AllKeys /\ <<"Recipient", "recipient">> \in AllKeys
    BY DEF AllKeys
  <2>2. /\ IsCall(Nested("Budget[]", "budgets")) /\ Nested("Budget[]", "budgets")[2] = "budgets"
        /\ IsCall(Hash168("recipient")) /\ Hash168("recipient")[2] = "recipient"
    BY CallsAreCalls, CallMembers DEF Unset
  <2>. QED BY <2>1, <2>2, FittingTwo DEF NormalOrELIP, NormalOrELIPKeys
<1>2. Fitting(ChangeOwner, ChangeOwnerKeys)
  <2>1. <<"TargetProposalHash", "targetProposalHash">> \in AllKeys /\ <<"NewRecipient", "newRecipient">> \in AllKeys /\ <<"NewOwnerPublicKey", "newOwnerPublicKey">> \in AllKeys
    BY DEF AllKeys
  <2>2. /\ IsCall(Hash256("targetProposalHash")) /\ Hash256("targetProposalHash")[2] = "targetProposalHash"
        /\ IsCall(Hash168("newRecipient")) /\ Hash168("newRecipient")[2] = "newRecipient"
        /\ IsCall(VarBytes("newOwnerPublicKey")) /\ VarBytes("newOwnerPublicKey")[2] = "newOwnerPublicKey"
    BY CallsAreCalls, CallMembers DEF Unset
  <2>. QED BY <2>1, <2>2, FittingThree DEF ChangeOwner, ChangeOwnerKeys
<1>3. Fitting(TerminateProposal, TerminateProposalKeys)
  <2>1. <<"TargetProposalHash", "targetProposalHash">> \in AllKeys
    BY DEF AllKeys
  <2>2. /\ IsCall(Hash256("targetProposalHash")) /\ Hash256("targetProposalHash")[2] = "targetProposalHash"
    BY CallsAreCalls, CallMembers DEF Unset
  <2>. QED BY <2>1, <2>2, FittingOne DEF TerminateProposal, TerminateProposalKeys
<1>4. Fitting(SecretaryElection, SecretaryElectionKeys)
  <2>1. <<"SecretaryGeneralPublicKey", "secretaryPublicKey">> \in AllKeys /\ <<"SecretaryGeneralDID", "secretaryDID">> \in AllKeys
    BY DEF AllKeys
  <2>2. /\ IsCall(VarBytes("secretaryPublicKey")) /\ VarBytes("secretaryPublicKey")[2] = "secretaryPublicKey"
        /\ IsCall(Hash168("secretaryDID")) /\ Hash168("secretaryDID")[2] = "secretaryDID"
    BY CallsAreCalls, CallMembers DEF Unset
  <2>. QED BY <2>1, <2>2, FittingTwo DEF SecretaryElection, SecretaryElectionKeys
<1>5. Fitting(ReserveCustomID, ReserveCustomIDKeys)
  <2>1. <<"ReservedCustomIDList", "reservedCustomIDList">> \in AllKeys
    BY DEF AllKeys
  <2>2. /\ IsCall(Nested("VarBytes[]", "reservedCustomIDList")) /\ Nested("VarBytes[]", "reservedCustomIDList")[2] = "reservedCustomIDList"
    BY CallsAreCalls, CallMembers DEF Unset
  <2>. QED BY <2>1, <2>2, FittingOne DEF ReserveCustomID, ReserveCustomIDKeys
<1>6. Fitting(ReceiveCustomID, ReceiveCustomIDKeys)
  <2>1. <<"ReceivedCustomIDList", "receivedCustomIDList">> \in AllKeys /\ <<"ReceiverDID", "receiverDID">> \in AllKeys
    BY DEF AllKeys
  <2>2. /\ IsCall(Nested("VarBytes[]", "receivedCustomIDList")) /\ Nested("VarBytes[]", "receivedCustomIDList")[2] = "receivedCustomIDList"
        /\ IsCall(Hash168("receiverDID")) /\ Hash168("receiverDID")[2] = "receiverDID"
    BY CallsAreCalls, CallMembers DEF Unset
  <2>. QED BY <2>1, <2>2, FittingTwo DEF ReceiveCustomID, ReceiveCustomIDKeys
<1>7. Fitting(ChangeCustomIDFee, ChangeCustomIDFeeKeys)
  <2>1. <<"CustomIDFeeRateInfo", "customIDFeeRateInfo">> \in AllKeys
    BY DEF AllKeys
  <2>2. /\ IsCall(Nested("CustomIDFeeRateInfo", "customIDFeeRateInfo")) /\ Nested("CustomIDFeeRateInfo", "customIDFeeRateInfo")[2] = "customIDFeeRateInfo"
    BY CallsAreCalls, CallMembers DEF Unset
  <2>. QED BY <2>1, <2>2, FittingOne DEF ChangeCustomIDFee, ChangeCustomIDFeeKeys
<1>8. Fitting(RegisterSidechain, RegisterSidechainKeys)
  <2>1. <<"SidechainInfo", "sidechainInfo">> \in AllKeys
    BY DEF AllKeys
  <2>2. /\ IsCall(Nested("SideChainInfo", "sidechainInfo")) /\ Nested("SideChainInfo", "sidechainInfo")[2] = "sidechainInfo"
    BY CallsAreCalls, CallMembers DEF Unset
  <2>. QED BY <2>1, <2>2, FittingOne DEF RegisterSidechain, RegisterSidechainKeys
<1>9. /\ t \in {"normal", "elip"} => Body(t) = NormalOrELIP /\ BodyKeys(t) = NormalOrELIPKeys
      /\ t = "changeProposalOwner" => Body(t) = ChangeOwner /\ BodyKeys(t) = ChangeOwnerKeys
      /\ t = "terminateProposal" => Body(t) = TerminateProposal /\ BodyKeys(t) = TerminateProposalKeys
      /\ t = "secretaryGeneralElection" => Body(t) = SecretaryElection /\ BodyKeys(t) = SecretaryElectionKeys
      /\ t = "reserveCustomID" => Body(t) = ReserveCustomID /\ BodyKeys(t) = ReserveCustomIDKeys
      /\ t = "receiveCustomID" => Body(t) = ReceiveCustomID /\ BodyKeys(t) = ReceiveCustomIDKeys
      /\ t = "changeCustomIDFee" => Body(t) = ChangeCustomIDFee /\ BodyKeys(t) = ChangeCustomIDFeeKeys
      /\ t = "registerSideChain" => Body(t) = RegisterSidechain /\ BodyKeys(t) = RegisterSidechainKeys
  BY DEF Body, BodyKeys, UpgradeTypes
<1>10. t \in {"normal", "elip", "changeProposalOwner", "terminateProposal", "secretaryGeneralElection",
              "reserveCustomID", "receiveCustomID", "changeCustomIDFee", "registerSideChain"}
  BY DEF SignedTypes, ProposalTypes
<1>. QED BY <1>1, <1>2, <1>3, <1>4, <1>5, <1>6, <1>7, <1>8, <1>9, <1>10, Zenon

\* The calls of Serialize and the calls that EstimateSize counts, as sets.
HeadCalls(v) ==
  {Uint16("type"), VarBytes("categoryData"), VarBytes("ownerPublicKey"), Hash256("draftHash")}
  \cup (IF v >= 1 THEN {VarBytes("draftData")} ELSE {})

CosignedCalls(t) ==
  (IF t = "changeProposalOwner" THEN {VarBytes("newOwnerSignature")} ELSE {})
  \cup (IF t = "secretaryGeneralElection" THEN {VarBytes("secretarySignature")} ELSE {})

LastCalls == {Hash168("crCouncilMemberDID"), VarBytes("crCouncilMemberSignature")}

LEMMA CosignedListed ==
  ASSUME NEW t
  PROVE  /\ Listed(Cosigned(t), CosignedCalls(t)) /\ AllCalls(CosignedCalls(t))
         /\ MembersIn(CosignedCalls(t)) \subseteq Copied
<1>1. Listed(Cosigned(t), CosignedCalls(t))
  BY ListedOne, ListedWhen, ListedConcat, Zenon DEF Cosigned, CosignedCalls
<1>2. AllCalls(CosignedCalls(t))
  BY CallsAreCalls DEF AllCalls, CosignedCalls, Unset
<1>3. \A c \in CosignedCalls(t) : c[2] \in Copied
  BY DEF CosignedCalls, VarBytes, Copied
<1>. QED BY <1>1, <1>2, <1>3 DEF MembersIn

LEMMA ProposalWritten ==
  ASSUME NEW t \in SignedTypes, NEW v
  PROVE  Listed(CRCProposal(t, v).Serialize,
                HeadCalls(v) \cup Calls(Body(t)) \cup {VarBytes("signature")} \cup CosignedCalls(t) \cup LastCalls)
<1> DEFINE head == <<Uint16("type"), VarBytes("categoryData"), VarBytes("ownerPublicKey"), Hash256("draftHash")>>
           text == When(v >= 1 /\ t \notin UpgradeTypes, <<VarBytes("draftData")>>)
           sig == <<VarBytes("signature")>>
           did == <<Hash168("crCouncilMemberDID")>>
           last == <<VarBytes("crCouncilMemberSignature")>>
           HeadSet == {Uint16("type"), VarBytes("categoryData"), VarBytes("ownerPublicKey"), Hash256("draftHash")}
           TextSet == IF v >= 1 /\ t \notin UpgradeTypes THEN {VarBytes("draftData")} ELSE {}
           SigSet == {VarBytes("signature")}
           DidSet == {Hash168("crCouncilMemberDID")}
           LastSet == {VarBytes("crCouncilMemberSignature")}
<1>1. /\ Listed(head, HeadSet) /\ Listed(text, TextSet) /\ Listed(sig, SigSet) /\ Listed(did, DidSet) /\ Listed(last, LastSet)
  BY ListedOne, ListedFour, ListedWhen, Zenon
<1>2. Listed(Body(t), Calls(Body(t)))
  BY BodyFits DEF Fitting, Listed
<1>3. Listed(Cosigned(t), CosignedCalls(t))
  BY CosignedListed
<1>4. t \notin UpgradeTypes
  BY DEF SignedTypes
<1>5. CRCProposal(t, v).Serialize = (((((head \o text) \o Body(t)) \o sig) \o Cosigned(t)) \o did) \o last
  BY <1>4 DEF CRCProposal, CRCouncilMemberUnsigned, OwnerUnsigned
<1>6. HeadCalls(v) = HeadSet \cup TextSet /\ LastCalls = DidSet \cup LastSet
  BY <1>4 DEF HeadCalls, LastCalls
<1> HIDE DEF head, text, sig, did, last, HeadSet, TextSet, DidSet, LastSet
<1> DEFINE a == (head \o text) \o Body(t)
           b == (a \o sig) \o Cosigned(t)
           A == (HeadSet \cup TextSet) \cup Calls(Body(t))
           B == (A \cup SigSet) \cup CosignedCalls(t)
<1>7. Listed(a, A)
  BY <1>1, <1>2, ListedConcat
<1> HIDE DEF a, A
<1>8. Listed(b, B)
  <2> HIDE DEF SigSet
  <2>. QED BY <1>1, <1>3, <1>7, ListedConcat
<1> HIDE DEF b, B
<1>9. Listed((b \o did) \o last, (B \cup DidSet) \cup LastSet)
  BY <1>1, <1>8, ListedConcat
<1>10. (B \cup DidSet) \cup LastSet =
         HeadCalls(v) \cup Calls(Body(t)) \cup {VarBytes("signature")} \cup CosignedCalls(t) \cup LastCalls
  BY <1>6 DEF A, B
<1>. QED BY <1>5, <1>9, <1>10 DEF a, b

LEMMA ProposalKeysApart ==
  ASSUME NEW t \in SignedTypes, NEW v
  PROVE  OneMemberEach(Calls(ProposalKeys(t, v)))
<1> DEFINE head == << <<"Type", "type">>, <<"CategoryData", "categoryData">>,
                      <<"OwnerPublicKey", "ownerPublicKey">>, <<"DraftHash", "draftHash">> >>
           text == When(v >= 1, << <<"DraftData", "draftData">> >>)
           sig == << <<"Signature", "signature">> >>
           new == When(t = "changeProposalOwner", << <<"NewOwnerSignature", "newOwnerSignature">> >>)
           sec == When(t = "secretaryGeneralElection", << <<"SecretaryGeneralSignature", "secretarySignature">> >>)
           last == << <<"CRCouncilMemberDID", "crCouncilMemberDID">>,
                      <<"CRCouncilMemberSignature", "crCouncilMemberSignature">> >>
           HeadSet == {<<"Type", "type">>, <<"CategoryData", "categoryData">>,
                    <<"OwnerPublicKey", "ownerPublicKey">>, <<"DraftHash", "draftHash">>}
           TextSet == IF v >= 1 THEN {<<"DraftData", "draftData">>} ELSE {}
           SigSet == {<<"Signature", "signature">>}
           NewSet == IF t = "changeProposalOwner" THEN {<<"NewOwnerSignature", "newOwnerSignature">>} ELSE {}
           SecSet == IF t = "secretaryGeneralElection"
                  THEN {<<"SecretaryGeneralSignature", "secretarySignature">>} ELSE {}
           LastSet == {<<"CRCouncilMemberDID", "crCouncilMemberDID">>,
                    <<"CRCouncilMemberSignature", "crCouncilMemberSignature">>}
<1>1. /\ Listed(head, HeadSet) /\ Listed(text, TextSet) /\ Listed(sig, SigSet) /\ Listed(new, NewSet)
      /\ Listed(sec, SecSet) /\ Listed(last, LastSet)
  BY ListedOne, ListedTwo, ListedFour, ListedWhen, Zenon
<1>2. HeadSet \cup TextSet \cup SigSet \cup NewSet \cup SecSet \cup LastSet \subseteq AllKeys
  BY DEF AllKeys
<1>3. Listed(BodyKeys(t), Calls(BodyKeys(t))) /\ Calls(BodyKeys(t)) \subseteq AllKeys
  BY BodyFits DEF Fitting, Listed
<1>4. ProposalKeys(t, v) = (((((head \o text) \o BodyKeys(t)) \o sig) \o new) \o sec) \o last
  BY DEF ProposalKeys
<1> HIDE DEF head, text, sig, new, sec, last, HeadSet, TextSet, SigSet, NewSet, SecSet, LastSet
<1> DEFINE a == (head \o text) \o BodyKeys(t)
           b == (a \o sig) \o new
           A == (HeadSet \cup TextSet) \cup Calls(BodyKeys(t))
           B == (A \cup SigSet) \cup NewSet
<1>5. Listed(a, A)
  BY <1>1, <1>3, ListedConcat
<1> HIDE DEF a, A
<1>6. Listed(b, B)
  BY <1>1, <1>5, ListedConcat
<1> HIDE DEF b, B
<1>7. Listed((b \o sec) \o last, (B \cup SecSet) \cup LastSet)
  BY <1>1, <1>6, ListedConcat
<1>8. Calls(ProposalKeys(t, v)) = (B \cup SecSet) \cup LastSet
  BY <1>4, <1>7 DEF Listed, a, b
<1>9. (B \cup SecSet) \cup LastSet \subseteq AllKeys
  BY <1>2, <1>3 DEF A, B
<1>. QED BY <1>8, <1>9, AllKeysApart DEF OneMemberEach

\* The types whose body EstimateSize counts.
SizedTypes == {"normal", "elip", "secretaryGeneralElection", "changeProposalOwner", "terminateProposal"}

LEMMA ProposalEstimated ==
  ASSUME NEW t \in SignedTypes, NEW v
  PROVE  Calls(Estimated(t, v)) =
           HeadCalls(v) \cup (IF t \in SizedTypes
                              THEN Calls(Body(t)) \cup {VarBytes("signature")} \cup CosignedCalls(t) ELSE {})
           \cup LastCalls
<1> DEFINE head == <<Uint16("type"), VarBytes("categoryData"), VarBytes("ownerPublicKey")>>
           text == When(v >= 1, <<VarBytes("draftData")>>)
           hash == <<Hash256("draftHash")>>
           sig == <<VarBytes("signature")>>
           last == <<Hash168("crCouncilMemberDID"), VarBytes("crCouncilMemberSignature")>>
           HeadSet == {Uint16("type"), VarBytes("categoryData"), VarBytes("ownerPublicKey")}
           TextSet == IF v >= 1 THEN {VarBytes("draftData")} ELSE {}
           HashSet == {Hash256("draftHash")}
           SigSet == {VarBytes("signature")}
<1>1. /\ Listed(head, HeadSet) /\ Listed(text, TextSet) /\ Listed(hash, HashSet) /\ Listed(sig, SigSet) /\ Listed(last, LastCalls)
  BY ListedOne, ListedTwo, ListedThree, ListedWhen, Zenon DEF LastCalls
<1>2. Listed(Body(t), Calls(Body(t)))
  BY BodyFits DEF Fitting, Listed
<1>3. Listed(Cosigned(t), CosignedCalls(t))
  BY CosignedListed
<1>4. HeadCalls(v) = (HeadSet \cup TextSet) \cup HashSet
  BY DEF HeadCalls
<1> DEFINE body == (Body(t) \o sig) \o Cosigned(t)
           BodySet == Calls(Body(t)) \cup SigSet \cup CosignedCalls(t)
           some == When(t \in SizedTypes, body)
           SomeSet == IF t \in SizedTypes THEN BodySet ELSE {}
           front == (head \o text) \o hash
<1>5. Estimated(t, v) = (front \o some) \o last
  BY DEF Estimated, SizedTypes
<1> HIDE DEF head, text, hash, sig, last, HeadSet, TextSet, HashSet, SigSet
<1>6. Listed(front, HeadCalls(v))
  <2>1. Listed(front, (HeadSet \cup TextSet) \cup HashSet)
    BY <1>1, ListedConcat
  <2>. QED BY <1>4, <2>1
<1>7. Listed(body, BodySet)
  BY <1>1, <1>2, <1>3, ListedConcat
<1> HIDE DEF front, body, BodySet
<1>8. Listed(some, SomeSet)
  BY <1>7, ListedWhen
<1> HIDE DEF some, SomeSet
<1>9. Listed((front \o some) \o last, (HeadCalls(v) \cup SomeSet) \cup LastCalls)
  BY <1>1, <1>6, <1>8, ListedConcat
<1>. QED BY <1>5, <1>9, Zenon DEF Listed, SomeSet, BodySet, SigSet

LEMMA ProposalClass ==
  ASSUME NEW t \in SignedTypes, NEW v
  PROVE  /\ t \in SizedTypes => Whole(CRCProposal(t, v))
         /\ t \notin SizedTypes => AllButSize(CRCProposal(t, v))
<1> DEFINE G == CRCProposal(t, v)
           W == HeadCalls(v) \cup Calls(Body(t)) \cup {VarBytes("signature")} \cup CosignedCalls(t) \cup LastCalls
<1>1. /\ G.Deserialize = G.Serialize /\ G.ToJson = ProposalKeys(t, v) /\ G.FromJson = ProposalKeys(t, v)
      /\ G.Copy = Copied /\ G.Equal = Compared(t, v) /\ G.EstimateSize = Estimated(t, v)
  BY DEF CRCProposal, SignedTypes
<1>2. IsLayout(G.Serialize) /\ Calls(G.Serialize) = W
  BY ProposalWritten DEF Listed
<1> HIDE DEF G
<1>3. AllCalls(W)
  <2>1. AllCalls(Calls(Body(t))) /\ AllCalls(CosignedCalls(t))
    BY BodyFits, CosignedListed DEF Fitting
  <2>2. AllCalls(HeadCalls(v) \cup {VarBytes("signature")} \cup LastCalls)
    BY CallsAreCalls DEF AllCalls, HeadCalls, LastCalls, Unset
  <2>. QED BY <2>1, <2>2 DEF AllCalls
<1>4. MembersIn(W) = Compared(t, v)
  <2> DEFINE B == Calls(Body(t))
             C == CosignedCalls(t)
  <2>1. MembersOf(Body(t)) = MembersIn(B) /\ MembersOf(Cosigned(t)) = MembersIn(C)
    BY BodyFits, CosignedListed, ListedCallMembers, MembersOfCalls DEF Fitting
  <2>2. MembersIn(HeadCalls(v)) = {"type", "categoryData", "ownerPublicKey", "draftHash"}
                                  \cup IF v >= 1 THEN {"draftData"} ELSE {}
    <3> DEFINE H == {Uint16("type"), VarBytes("categoryData"), VarBytes("ownerPublicKey"), Hash256("draftHash")}
               T == IF v >= 1 THEN {VarBytes("draftData")} ELSE {}
    <3>1. MembersIn(H) = {"type", "categoryData", "ownerPublicKey", "draftHash"}
      BY DEF MembersIn, Uint16, VarBytes, Hash256
    <3>2. MembersIn(T) = IF v >= 1 THEN {"draftData"} ELSE {}
      <4>1. CASE v >= 1
        BY <4>1 DEF MembersIn, VarBytes
      <4>2. CASE ~ v >= 1
        BY <4>2 DEF MembersIn
      <4>. QED BY <4>1, <4>2
    <3>3. HeadCalls(v) = H \cup T
      BY DEF HeadCalls
    <3> HIDE DEF H, T
    <3>4. MembersIn(H \cup T) = MembersIn(H) \cup MembersIn(T)
      BY DEF MembersIn
    <3>. QED BY <3>1, <3>2, <3>3, <3>4
  <2>3. MembersIn({VarBytes("signature")}) = {"signature"}
    BY DEF MembersIn, VarBytes
  <2>4. MembersIn(LastCalls) = {"crCouncilMemberDID", "crCouncilMemberSignature"}
    BY DEF MembersIn, LastCalls, VarBytes, Hash168
  <2> HIDE DEF B, C
  <2>5. MembersIn(W) = MembersIn(HeadCalls(v)) \cup MembersIn(B) \cup MembersIn({VarBytes("signature")})
                       \cup MembersIn(C) \cup MembersIn(LastCalls)
    BY DEF MembersIn, B, C
  <2> HIDE DEF W
  <2>. QED BY <2>1, <2>2, <2>3, <2>4, <2>5 DEF Compared
<1>5. Compared(t, v) \subseteq Copied
  <2>1. MembersOf(Body(t)) \subseteq Copied /\ MembersOf(Cosigned(t)) \subseteq Copied
    BY BodyFits, CosignedListed, ListedCallMembers, MembersOfCalls DEF Fitting
  <2>2. {"type", "categoryData", "ownerPublicKey", "draftHash", "signature", "crCouncilMemberDID",
         "crCouncilMemberSignature", "draftData"} \subseteq Copied
    BY DEF Copied
  <2>. QED BY <2>1, <2>2 DEF Compared
<1>6. OneMemberEach(Calls(G.FromJson))
  BY <1>1, ProposalKeysApart
<1>7. Calls(G.EstimateSize) = W <=> t \in SizedTypes
  <2> DEFINE sig == VarBytes("signature")
  <2>1. Calls(G.EstimateSize) =
           HeadCalls(v) \cup (IF t \in SizedTypes
                              THEN Calls(Body(t)) \cup {sig} \cup CosignedCalls(t) ELSE {})
           \cup LastCalls
    BY <1>1, ProposalEstimated
  <2>2. sig \notin HeadCalls(v) \cup LastCalls
    BY DEF HeadCalls, LastCalls, VarBytes, Uint16, Hash256, Hash168
  <2> HIDE DEF sig
  <2>3. W = HeadCalls(v) \cup Calls(Body(t)) \cup {sig} \cup CosignedCalls(t) \cup LastCalls
    BY DEF sig
  <2> HIDE DEF W
  <2>4. CASE t \in SizedTypes
    BY <2>1, <2>3, <2>4
  <2>5. CASE t \notin SizedTypes
    BY <2>1, <2>2, <2>3, <2>5
  <2>. QED BY <2>4, <2>5
<1> HIDE DEF W
<1>8. Regular(G) /\ WrittenIsCompared(G) /\ (Counted(G) <=> t \in SizedTypes)
  BY <1>1, <1>2, <1>3, <1>4, <1>5, <1>6, <1>7 DEF Regular, Consistent, WrittenIsCompared, Counted
<1>. QED BY <1>8 DEF G, Whole, AllButSize

LEMMA EmptyClasses ==
  ASSUME NEW v
  PROVE  /\ Whole(TransferAsset(v))
         /\ Whole(ReturnDepositCoin(v))
         /\ Whole(CRCAssetsRectify(v))
         /\ Whole(CRCAppropriation(v))
         /\ Whole(Stake(v))
         /\ Whole(PayloadDefault(v))
BY EmptyWhole DEF TransferAsset, ReturnDepositCoin, CRCAssetsRectify, CRCAppropriation, Stake, PayloadDefault

(***************************************************************************)
(* All the classes.                                                        *)
(***************************************************************************)
LEMMA FunctionsOf ==
  ASSUME NEW v
  PROVE  /\ Functions("CoinBase", v) = CoinBase(v)
         /\ Functions("Asset", v) = Asset(v)
         /\ Functions("RegisterAsset", v) = RegisterAsset(v)
         /\ Functions("TransferAsset", v) = TransferAsset(v)
         /\ Functions("Record", v) = Record(v)
         /\ Functions("SideChainPow", v) = SideChainPow(v)
         /\ Functions("RechargeToSideChain", v) = RechargeToSideChain(v)
         /\ Functions("WithdrawFromSideChain", v) = WithdrawFromSideChain(v)
         /\ Functions("TransferInfo", v) = TransferInfo(v)
         /\ Functions("TransferCrossChainAsset", v) = TransferCrossChainAsset(v)
         /\ Functions("ProducerInfo", v) = ProducerInfo(v)
         /\ Functions("CancelProducer", v) = CancelProducer(v)
         /\ Functions("ReturnDepositCoin", v) = ReturnDepositCoin(v)
         /\ Functions("NextTurnDPoSInfo", v) = NextTurnDPoSInfo(v)
         /\ Functions("CRInfo", v) = CRInfo(v)
         /\ Functions("UnregisterCR", v) = UnregisterCR(v)
         /\ Functions("CRCouncilMemberClaimNode", v) = CRCouncilMemberClaimNode(v)
         /\ Functions("CRCAssetsRectify", v) = CRCAssetsRectify(v)
         /\ Functions("CRCProposalRealWithdraw", v) = CRCProposalRealWithdraw(v)
         /\ Functions("CRCProposalReview", v) = CRCProposalReview(v)
         /\ Functions("CRCProposalTracking", v) = CRCProposalTracking(v)
         /\ Functions("CRCProposalWithdraw", v) = CRCProposalWithdraw(v)
         /\ Functions("CRCAppropriation", v) = CRCAppropriation(v)
         /\ Functions("VotesWithLockTime", v) = VotesWithLockTime(v)
         /\ Functions("VotesContent", v) = VotesContent(v)
         /\ Functions("RenewalVotesContent", v) = RenewalVotesContent(v)
         /\ Functions("Voting", v) = Voting(v)
         /\ Functions("Stake", v) = Stake(v)
         /\ Functions("Unstake", v) = Unstake(v)
         /\ Functions("DPoSV2ClaimReward", v) = DPoSV2ClaimReward(v)
         /\ Functions("CancelVotes", v) = CancelVotes(v)
         /\ Functions("UnstakeRealWithdraw", v) = UnstakeRealWithdraw(v)
         /\ Functions("DPoSV2ClaimRewardRealWithdraw", v) = DPoSV2ClaimRewardRealWithdraw(v)
         /\ Functions("RegisterIdentification", v) = RegisterIdentification(v)
         /\ Functions("DIDHeaderInfo", v) = DIDHeaderInfo(v)
         /\ Functions("DIDProofInfo", v) = DIDProofInfo(v)
         /\ Functions("DIDInfo", v) = DIDInfo(v)
         /\ Functions("CandidateVotes", v) = CandidateVotes(v)
         /\ Functions("VoteContent", v) = VoteContent(v)
         /\ Functions("PayloadVote", v) = PayloadVote(v)
         /\ Functions("PayloadCrossChain", v) = PayloadCrossChain(v)
         /\ Functions("PayloadStake", v) = PayloadStake(v)
         /\ Functions("PayloadDefault", v) = PayloadDefault(v)
         /\ Functions("Attribute", v) = Attribute(v)
         /\ Functions("TransactionInput", v) = TransactionInput(v)
         /\ Functions("Program", v) = Program(v)
         /\ Functions("Budget", v) = Budget(v)
         /\ Functions("UpgradeCodeInfo", v) = UpgradeCodeInfo(v)
         /\ Functions("SideChainInfo", v) = SideChainInfo(v)
         /\ Functions("CustomIDFeeRateInfo", v) = CustomIDFeeRateInfo(v)
<1> USE DEF Functions, ProposalTypes, UpgradeTypes
<1>1. Functions("CoinBase", v) = CoinBase(v)
  OBVIOUS
<1>2. Functions("Asset", v) = Asset(v)
  OBVIOUS
<1>3. Functions("RegisterAsset", v) = RegisterAsset(v)
  OBVIOUS
<1>4. Functions("TransferAsset", v) = TransferAsset(v)
  OBVIOUS
<1>5. Functions("Record", v) = Record(v)
  OBVIOUS
<1>6. Functions("SideChainPow", v) = SideChainPow(v)
  OBVIOUS
<1>7. Functions("RechargeToSideChain", v) = RechargeToSideChain(v)
  OBVIOUS
<1>8. Functions("WithdrawFromSideChain", v) = WithdrawFromSideChain(v)
  OBVIOUS
<1>9. Functions("TransferInfo", v) = TransferInfo(v)
  OBVIOUS
<1>10. Functions("TransferCrossChainAsset", v) = TransferCrossChainAsset(v)
  OBVIOUS
<1>11. Functions("ProducerInfo", v) = ProducerInfo(v)
  OBVIOUS
<1>12. Functions("CancelProducer", v) = CancelProducer(v)
  OBVIOUS
<1>13. Functions("ReturnDepositCoin", v) = ReturnDepositCoin(v)
  OBVIOUS
<1>14. Functions("NextTurnDPoSInfo", v) = NextTurnDPoSInfo(v)
  OBVIOUS
<1>15. Functions("CRInfo", v) = CRInfo(v)
  OBVIOUS
<1>16. Functions("UnregisterCR", v) = UnregisterCR(v)
  OBVIOUS
<1>17. Functions("CRCouncilMemberClaimNode", v) = CRCouncilMemberClaimNode(v)
  OBVIOUS
<1>18. Functions("CRCAssetsRectify", v) = CRCAssetsRectify(v)
  OBVIOUS
<1>19. Functions("CRCProposalRealWithdraw", v) = CRCProposalRealWithdraw(v)
  OBVIOUS
<1>20. Functions("CRCProposalReview", v) = CRCProposalReview(v)
  OBVIOUS
<1>21. Functions("CRCProposalTracking", v) = CRCProposalTracking(v)
  OBVIOUS
<1>22. Functions("CRCProposalWithdraw", v) = CRCProposalWithdraw(v)
  OBVIOUS
<1>23. Functions("CRCAppropriation", v) = CRCAppropriation(v)
  OBVIOUS
<1>24. Functions("VotesWithLockTime", v) = VotesWithLockTime(v)
  OBVIOUS
<1>25. Functions("VotesContent", v) = VotesContent(v)
  OBVIOUS
<1>26. Functions("RenewalVotesContent", v) = RenewalVotesContent(v)
  OBVIOUS
<1>27. Functions("Voting", v) = Voting(v)
  OBVIOUS
<1>28. Functions("Stake", v) = Stake(v)
  OBVIOUS
<1>29. Functions("Unstake", v) = Unstake(v)
  OBVIOUS
<1>30. Functions("DPoSV2ClaimReward", v) = DPoSV2ClaimReward(v)
  OBVIOUS
<1>31. Functions("CancelVotes", v) = CancelVotes(v)
  OBVIOUS
<1>32. Functions("UnstakeRealWithdraw", v) = UnstakeRealWithdraw(v)
  OBVIOUS
<1>33. Functions("DPoSV2ClaimRewardRealWithdraw", v) = DPoSV2ClaimRewardRealWithdraw(v)
  OBVIOUS
<1>34. Functions("RegisterIdentification", v) = RegisterIdentification(v)
  OBVIOUS
<1>35. Functions("DIDHeaderInfo", v) = DIDHeaderInfo(v)
  OBVIOUS
<1>36. Functions("DIDProofInfo", v) = DIDProofInfo(v)
  OBVIOUS
<1>37. Functions("DIDInfo", v) = DIDInfo(v)
  OBVIOUS
<1>38. Functions("CandidateVotes", v) = CandidateVotes(v)
  OBVIOUS
<1>39. Functions("VoteContent", v) = VoteContent(v)
  OBVIOUS
<1>40. Functions("PayloadVote", v) = PayloadVote(v)
  OBVIOUS
<1>41. Functions("PayloadCrossChain", v) = PayloadCrossChain(v)
  OBVIOUS
<1>42. Functions("PayloadStake", v) = PayloadStake(v)
  OBVIOUS
<1>43. Functions("PayloadDefault", v) = PayloadDefault(v)
  OBVIOUS
<1>44. Functions("Attribute", v) = Attribute(v)
  OBVIOUS
<1>45. Functions("TransactionInput", v) = TransactionInput(v)
  OBVIOUS
<1>46. Functions("Program", v) = Program(v)
  OBVIOUS
<1>47. Functions("Budget", v) = Budget(v)
  OBVIOUS
<1>48. Functions("UpgradeCodeInfo", v) = UpgradeCodeInfo(v)
  OBVIOUS
<1>49. Functions("SideChainInfo", v) = SideChainInfo(v)
  OBVIOUS
<1>50. Functions("CustomIDFeeRateInfo", v) = CustomIDFeeRateInfo(v)
  OBVIOUS
<1>. QED BY <1>1, <1>2, <1>3, <1>4, <1>5, <1>6, <1>7, <1>8, <1>9, <1>10, <1>11, <1>12, <1>13, <1>14, <1>15, <1>16, <1>17, <1>18, <1>19, <1>20, <1>21, <1>22, <1>23, <1>24, <1>25, <1>26, <1>27, <1>28, <1>29, <1>30, <1>31, <1>32, <1>33, <1>34, <1>35, <1>36, <1>37, <1>38, <1>39, <1>40, <1>41, <1>42, <1>43, <1>44, <1>45, <1>46, <1>47, <1>48, <1>49, <1>50, Zenon

LEMMA FunctionsOfProposal ==
  ASSUME NEW t \in ProposalTypes, NEW v
  PROVE  Functions(t, v) = CRCProposal(t, v) /\ t \notin PlainClasses
BY DEF Functions, ProposalTypes, UpgradeTypes, PlainClasses

\* The classes for which nothing has to be said, and the others.
WholeClasses == PlainClasses \ {"RechargeToSideChain", "TransferInfo", "CRInfo", "CRCProposalRealWithdraw", "DIDInfo",
  "CandidateVotes"}

LEMMA WholeFunctions ==
  ASSUME NEW c \in WholeClasses, NEW v
  PROVE  Whole(Functions(c, v))
<1>1. CASE c \in {"CoinBase", "Asset", "RegisterAsset", "Record", "SideChainPow", "WithdrawFromSideChain",
               "ProducerInfo", "CancelProducer", "NextTurnDPoSInfo", "UnregisterCR",
               "CRCouncilMemberClaimNode", "VotesWithLockTime", "VotesContent", "RenewalVotesContent",
               "Unstake", "DPoSV2ClaimReward", "CancelVotes", "UnstakeRealWithdraw",
               "DPoSV2ClaimRewardRealWithdraw", "RegisterIdentification", "DIDProofInfo", "VoteContent",
               "PayloadVote", "PayloadCrossChain", "PayloadStake", "Attribute", "TransactionInput", "Program",
               "Budget", "UpgradeCodeInfo", "SideChainInfo", "CustomIDFeeRateInfo"}
  BY <1>1, FunctionsOf, UniformClasses
<1>2. CASE c \in {"TransferAsset", "ReturnDepositCoin", "CRCAssetsRectify", "CRCAppropriation", "Stake",
               "PayloadDefault"}
  BY <1>2, FunctionsOf, EmptyClasses
<1>3. CASE c \in {"TransferCrossChainAsset", "CRCProposalReview", "CRCProposalTracking", "CRCProposalWithdraw",
               "Voting", "DIDHeaderInfo"}
  BY <1>3, FunctionsOf, TransferCrossChainAssetClass, CRCProposalReviewClass, CRCProposalTrackingClass,
     CRCProposalWithdrawClass, VotingClass, DIDHeaderInfoClass
<1>. QED BY <1>1, <1>2, <1>3 DEF WholeClasses, PlainClasses

\* The classes that Deserialize refuses, and those whose size is not exact.
MayRefuse(c, v) == c \in UpgradeTypes \/ (c = "RechargeToSideChain" /\ v > 1)

Miscounted(c, v) ==
  \/ c \in {"TransferInfo", "CRCProposalRealWithdraw", "DIDInfo", "reserveCustomID", "receiveCustomID",
            "changeCustomIDFee", "registerSideChain"}
  \/ c = "CandidateVotes" /\ v >= 1

\* What the functions of a class agree on, and where they do not.
Sound(c, v, G) ==
  /\ Regular(G) \/ (MayRefuse(c, v) /\ Calls(G.Serialize) = {} /\ G.Equal = {})
  /\ c \notin UpgradeTypes => G.ToJson = G.FromJson
  /\ \A m \in MembersIn(Calls(G.Serialize)) : m \in G.Equal \/ (c = "CRInfo" /\ v = 1 /\ m = "did")
  /\ c \notin UpgradeTypes => (Counted(G) <=> ~Miscounted(c, v))

LEMMA SoundWhole ==
  ASSUME NEW c, NEW v, NEW G, Whole(G), ~Miscounted(c, v)
  PROVE  Sound(c, v, G)
BY DEF Sound, Whole, Regular, Consistent, WrittenIsCompared

LEMMA SoundAllButSize ==
  ASSUME NEW c, NEW v, NEW G, AllButSize(G), Miscounted(c, v)
  PROVE  Sound(c, v, G)
BY DEF Sound, AllButSize, Regular, Consistent, WrittenIsCompared

LEMMA SoundUpgrade ==
  ASSUME NEW t \in UpgradeTypes, NEW v
  PROVE  Sound(t, v, CRCProposal(t, v))
<1> DEFINE G == CRCProposal(t, v)
<1>1. G.Serialize = <<>> /\ G.Equal = {}
  BY DEF CRCProposal, Empty
<1>2. Calls(<<>>) = {} /\ MembersIn({}) = {}
  BY DEF Calls, MembersIn
<1> HIDE DEF G
<1>3. Sound(t, v, G)
  BY <1>1, <1>2 DEF Sound, MayRefuse
<1>. QED BY <1>3 DEF G

LEMMA SoundClasses ==
  ASSUME NEW c \in PlainClasses \cup ProposalTypes, NEW v \in Nat
  PROVE  Sound(c, v, Functions(c, v))
<1>1. CASE c \in WholeClasses
  <2>1. ~Miscounted(c, v)
    BY <1>1 DEF WholeClasses, PlainClasses, Miscounted
  <2>. QED BY <1>1, <2>1, WholeFunctions, SoundWhole
<1>2. CASE c = "RechargeToSideChain"
  <2>1. Functions(c, v) = RechargeToSideChain(v) /\ ~Miscounted(c, v)
    BY <1>2, FunctionsOf DEF Miscounted
  <2>2. CASE v \in {0, 1}
    BY <2>1, <2>2, RechargeToSideChainClass, SoundWhole
  <2>3. CASE v > 1
    <3>1. Blank(Functions(c, v)) /\ MayRefuse(c, v)
      BY <1>2, <2>1, <2>3, RechargeToSideChainClass DEF MayRefuse
    <3>2. MembersIn({}) = {}
      BY DEF MembersIn
    <3>. QED BY <2>1, <3>1, <3>2 DEF Sound, Blank
  <2>. QED BY <2>2, <2>3
<1>3. CASE c \in {"TransferInfo", "CRCProposalRealWithdraw", "DIDInfo"}
  <2>1. AllButSize(Functions(c, v))
    BY <1>3, FunctionsOf, TransferInfoClass, CRCProposalRealWithdrawClass, DIDInfoClass
  <2>2. Miscounted(c, v)
    BY <1>3 DEF Miscounted
  <2>. QED BY <2>1, <2>2, SoundAllButSize
<1>4. CASE c = "CRInfo"
  <2>1. Functions(c, v) = CRInfo(v) /\ ~Miscounted(c, v)
    BY <1>4, FunctionsOf DEF Miscounted
  <2>2. CASE v # 1
    BY <2>1, <2>2, CRInfoClass, SoundWhole DEF Whole
  <2>3. CASE v = 1
    BY <1>4, <2>1, <2>3, CRInfoClass DEF Sound, Regular, Consistent
  <2>. QED BY <2>2, <2>3
<1>5. CASE c = "CandidateVotes"
  <2>1. Functions(c, v) = CandidateVotes(v) /\ (Miscounted(c, v) <=> v >= 1)
    BY <1>5, FunctionsOf DEF Miscounted
  <2>. QED BY <2>1, CandidateVotesClass, SoundWhole, SoundAllButSize
<1>6. CASE c \in SignedTypes
  <2>1. Functions(c, v) = CRCProposal(c, v)
    BY <1>6, FunctionsOfProposal DEF SignedTypes
  <2>2. Miscounted(c, v) <=> c \notin SizedTypes
    BY <1>6 DEF Miscounted, SignedTypes, SizedTypes, ProposalTypes
  <2>. QED BY <1>6, <2>1, <2>2, ProposalClass, SoundWhole, SoundAllButSize
<1>7. CASE c \in UpgradeTypes
  <2>1. c \in ProposalTypes
    BY <1>7 DEF ProposalTypes
  <2>. QED BY <1>7, <2>1, FunctionsOfProposal, SoundUpgrade
<1>. QED BY <1>1, <1>2, <1>3, <1>4, <1>5, <1>6, <1>7 DEF WholeClasses, SignedTypes

\* The classes of which Equal finds nothing equal.
Incomparable(c, v) ==
  \/ c \in {"RechargeToSideChain", "TransferCrossChainAsset"} /\ v > 1
  \/ c \in UpgradeTypes \cup {"UpgradeCodeInfo"}

\* The others have it from Uniform, or from Empty.
LEMMA PlainComparable ==
  ASSUME NEW v
  PROVE  /\ Functions("CoinBase", v).Comparable
         /\ Functions("Asset", v).Comparable
         /\ Functions("RegisterAsset", v).Comparable
         /\ Functions("TransferAsset", v).Comparable
         /\ Functions("Record", v).Comparable
         /\ Functions("SideChainPow", v).Comparable
         /\ Functions("WithdrawFromSideChain", v).Comparable
         /\ Functions("TransferInfo", v).Comparable
         /\ Functions("ProducerInfo", v).Comparable
         /\ Functions("CancelProducer", v).Comparable
         /\ Functions("ReturnDepositCoin", v).Comparable
         /\ Functions("NextTurnDPoSInfo", v).Comparable
         /\ Functions("CRInfo", v).Comparable
         /\ Functions("UnregisterCR", v).Comparable
         /\ Functions("CRCouncilMemberClaimNode", v).Comparable
         /\ Functions("CRCAssetsRectify", v).Comparable
         /\ Functions("CRCProposalRealWithdraw", v).Comparable
         /\ Functions("CRCProposalReview", v).Comparable
         /\ Functions("CRCProposalTracking", v).Comparable
         /\ Functions("CRCProposalWithdraw", v).Comparable
         /\ Functions("CRCAppropriation", v).Comparable
         /\ Functions("VotesWithLockTime", v).Comparable
         /\ Functions("VotesContent", v).Comparable
         /\ Functions("RenewalVotesContent", v).Comparable
         /\ Functions("Voting", v).Comparable
         /\ Functions("Stake", v).Comparable
         /\ Functions("Unstake", v).Comparable
         /\ Functions("DPoSV2ClaimReward", v).Comparable
         /\ Functions("CancelVotes", v).Comparable
         /\ Functions("UnstakeRealWithdraw", v).Comparable
         /\ Functions("DPoSV2ClaimRewardRealWithdraw", v).Comparable
         /\ Functions("RegisterIdentification", v).Comparable
         /\ Functions("DIDHeaderInfo", v).Comparable
         /\ Functions("DIDProofInfo", v).Comparable
         /\ Functions("DIDInfo", v).Comparable
         /\ Functions("CandidateVotes", v).Comparable
         /\ Functions("VoteContent", v).Comparable
         /\ Functions("PayloadVote", v).Comparable
         /\ Functions("PayloadCrossChain", v).Comparable
         /\ Functions("PayloadStake", v).Comparable
         /\ Functions("PayloadDefault", v).Comparable
         /\ Functions("Attribute", v).Comparable
         /\ Functions("TransactionInput", v).Comparable
         /\ Functions("Program", v).Comparable
         /\ Functions("Budget", v).Comparable
         /\ Functions("SideChainInfo", v).Comparable
         /\ Functions("CustomIDFeeRateInfo", v).Comparable
<1>1. CoinBase(v).Comparable
  BY DEF CoinBase, Uniform
<1>2. Asset(v).Comparable
  BY DEF Asset, Uniform
<1>3. RegisterAsset(v).Comparable
  BY DEF RegisterAsset, Uniform
<1>4. TransferAsset(v).Comparable
  BY DEF TransferAsset, Empty
<1>5. Record(v).Comparable
  BY DEF Record, Uniform
<1>6. SideChainPow(v).Comparable
  BY DEF SideChainPow, Uniform
<1>7. WithdrawFromSideChain(v).Comparable
  BY DEF WithdrawFromSideChain, Uniform
<1>8. TransferInfo(v).Comparable
  BY DEF TransferInfo, Uniform
<1>9. ProducerInfo(v).Comparable
  BY DEF ProducerInfo, Uniform
<1>10. CancelProducer(v).Comparable
  BY DEF CancelProducer, Uniform
<1>11. ReturnDepositCoin(v).Comparable
  BY DEF ReturnDepositCoin, Empty
<1>12. NextTurnDPoSInfo(v).Comparable
  BY DEF NextTurnDPoSInfo, Uniform
<1>13. CRInfo(v).Comparable
  BY DEF CRInfo, Uniform
<1>14. UnregisterCR(v).Comparable
  BY DEF UnregisterCR, Uniform
<1>15. CRCouncilMemberClaimNode(v).Comparable
  BY DEF CRCouncilMemberClaimNode, Uniform
<1>16. CRCAssetsRectify(v).Comparable
  BY DEF CRCAssetsRectify, Empty
<1>17. CRCProposalRealWithdraw(v).Comparable
  BY DEF CRCProposalRealWithdraw, Uniform
<1>18. CRCProposalReview(v).Comparable
  BY DEF CRCProposalReview, Uniform
<1>19. CRCProposalTracking(v).Comparable
  BY DEF CRCProposalTracking, Uniform
<1>20. CRCProposalWithdraw(v).Comparable
  BY DEF CRCProposalWithdraw, Uniform
<1>21. CRCAppropriation(v).Comparable
  BY DEF CRCAppropriation, Empty
<1>22. VotesWithLockTime(v).Comparable
  BY DEF VotesWithLockTime, Uniform
<1>23. VotesContent(v).Comparable
  BY DEF VotesContent, Uniform
<1>24. RenewalVotesContent(v).Comparable
  BY DEF RenewalVotesContent, Uniform
<1>25. Voting(v).Comparable
  BY DEF Voting, Uniform
<1>26. Stake(v).Comparable
  BY DEF Stake, Empty
<1>27. Unstake(v).Comparable
  BY DEF Unstake, Uniform
<1>28. DPoSV2ClaimReward(v).Comparable
  BY DEF DPoSV2ClaimReward, Uniform
<1>29. CancelVotes(v).Comparable
  BY DEF CancelVotes, Uniform
<1>30. UnstakeRealWithdraw(v).Comparable
  BY DEF UnstakeRealWithdraw, Uniform
<1>31. DPoSV2ClaimRewardRealWithdraw(v).Comparable
  BY DEF DPoSV2ClaimRewardRealWithdraw, Uniform
<1>32. RegisterIdentification(v).Comparable
  BY DEF RegisterIdentification, Uniform
<1>33. DIDHeaderInfo(v).Comparable
  BY DEF DIDHeaderInfo, Uniform
<1>34. DIDProofInfo(v).Comparable
  BY DEF DIDProofInfo, Uniform
<1>35. DIDInfo(v).Comparable
  BY DEF DIDInfo, Uniform
<1>36. CandidateVotes(v).Comparable
  BY DEF CandidateVotes, Uniform
<1>37. VoteContent(v).Comparable
  BY DEF VoteContent, Uniform
<1>38. PayloadVote(v).Comparable
  BY DEF PayloadVote, Uniform
<1>39. PayloadCrossChain(v).Comparable
  BY DEF PayloadCrossChain, Uniform
<1>40. PayloadStake(v).Comparable
  BY DEF PayloadStake, Uniform
<1>41. PayloadDefault(v).Comparable
  BY DEF PayloadDefault, Empty
<1>42. Attribute(v).Comparable
  BY DEF Attribute, Uniform
<1>43. TransactionInput(v).Comparable
  BY DEF TransactionInput, Uniform
<1>44. Program(v).Comparable
  BY DEF Program, Uniform
<1>45. Budget(v).Comparable
  BY DEF Budget, Uniform
<1>46. SideChainInfo(v).Comparable
  BY DEF SideChainInfo, Uniform
<1>47. CustomIDFeeRateInfo(v).Comparable
  BY DEF CustomIDFeeRateInfo, Uniform
<1>. QED BY FunctionsOf, <1>1, <1>2, <1>3, <1>4, <1>5, <1>6, <1>7, <1>8, <1>9, <1>10, <1>11, <1>12, <1>13, <1>14, <1>15,
   <1>16, <1>17, <1>18, <1>19, <1>20, <1>21, <1>22, <1>23, <1>24, <1>25, <1>26, <1>27, <1>28, <1>29,
   <1>30, <1>31, <1>32, <1>33, <1>34, <1>35, <1>36, <1>37, <1>38, <1>39, <1>40, <1>41, <1>42, <1>43,
   <1>44, <1>45, <1>46, <1>47, Zenon

LEMMA ProposalComparable ==
  ASSUME NEW t \in ProposalTypes, NEW v
  PROVE  CRCProposal(t, v).Comparable <=> t \notin UpgradeTypes
<1>1. CASE t \in UpgradeTypes
  BY <1>1 DEF CRCProposal, Empty
<1>2. CASE t \notin UpgradeTypes
  BY <1>2 DEF CRCProposal
<1>. QED BY <1>1, <1>2

LEMMA ComparableClasses ==
  ASSUME NEW c \in PlainClasses \cup ProposalTypes, NEW v \in Nat
  PROVE  Functions(c, v).Comparable <=> ~Incomparable(c, v)
<1>1. CASE c \in ProposalTypes
  <2>1. c \notin PlainClasses /\ (Functions(c, v).Comparable <=> c \notin UpgradeTypes)
    BY <1>1, FunctionsOfProposal, ProposalComparable
  <2>. QED BY <2>1 DEF Incomparable, PlainClasses
<1>2. CASE c \in PlainClasses
  <2>1. c \notin UpgradeTypes
    BY <1>2, FunctionsOfProposal DEF ProposalTypes
  <2>2. CASE c = "RechargeToSideChain"
    <3>1. RechargeToSideChain(v).Comparable <=> v \in {0, 1}
      BY DEF RechargeToSideChain, Uniform
    <3>. QED BY <2>1, <2>2, <3>1, FunctionsOf DEF Incomparable
  <2>3. CASE c = "TransferCrossChainAsset"
    <3>1. TransferCrossChainAsset(v).Comparable <=> v \in {0, 1}
      BY DEF TransferCrossChainAsset, Uniform
    <3>. QED BY <2>1, <2>3, <3>1, FunctionsOf DEF Incomparable
  <2>4. CASE c = "UpgradeCodeInfo"
    <3>1. ~UpgradeCodeInfo(v).Comparable
      BY DEF UpgradeCodeInfo, Uniform
    <3>. QED BY <2>4, <3>1, FunctionsOf DEF Incomparable
  <2>5. CASE c \notin {"RechargeToSideChain", "TransferCrossChainAsset", "UpgradeCodeInfo"}
    <3>1. ~Incomparable(c, v)
      BY <2>1, <2>5 DEF Incomparable
    <3>2. Functions(c, v).Comparable
      BY <1>2, <2>5, PlainComparable, Zenon DEF PlainClasses
    <3>. QED BY <3>1, <3>2
  <2>. QED BY <2>2, <2>3, <2>4, <2>5
<1>. QED BY <1>1, <1>2

(***************************************************************************)
(* The conversions.  What is kept is the value of every member that is     *)
(* compared or written.                                                    *)
(***************************************************************************)
MembersFor(G) == G.Copy \cup G.Equal \cup MembersOf(G.Serialize) \cup MembersOf(G.Deserialize)

OriginalOf(G) == FromJsonOf(G.FromJson, [k \in KeysOf(G.FromJson) |-> k], MembersFor(G))

Kept(G, val) == \A m \in G.Equal \cup MembersOf(G.Serialize) : val[m] = OriginalOf(G)[m]

LEMMA KeptThroughJson ==
  ASSUME NEW G, Regular(G), NEW val, Kept(G, val)
  PROVE  Kept(G, FromJsonOf(G.FromJson, JsonOf(G.ToJson, val), MembersFor(G)))
<1> DEFINE J == G.FromJson
           json == JsonOf(J, val)
           new == FromJsonOf(J, json, MembersFor(G))
<1>1. G.ToJson = J /\ OneMemberEach(Calls(J))
  BY DEF Regular, Consistent
<1> HIDE DEF J
<1>2. ASSUME NEW m \in G.Equal \cup MembersOf(G.Serialize) PROVE new[m] = OriginalOf(G)[m]
  <2> DEFINE reads == {i \in DOMAIN J : J[i][2] = m}
  <2>1. m \in MembersFor(G)
    BY DEF MembersFor
  <2>2. CASE reads = {}
    <3>1. new[m] = Unset
      BY <2>1, <2>2 DEF FromJsonOf
    <3>2. OriginalOf(G)[m] = Unset
      BY <2>1, <2>2 DEF FromJsonOf, OriginalOf, J
    <3>. QED BY <3>1, <3>2
  <2>3. CASE reads # {}
    <3> DEFINE i == CHOOSE n \in reads : TRUE
               k == J[i][1]
               j == CHOOSE n \in DOMAIN J : J[n][1] = k
    <3>1. new[m] = json[k]
      BY <2>1, <2>3 DEF FromJsonOf
    <3>2. i \in DOMAIN J /\ J[i][2] = m
      BY <2>3
    <3> HIDE DEF i, reads
    <3>3. json[k] = val[J[j][2]]
      BY <3>2 DEF JsonOf, KeysOf
    <3>4. j \in DOMAIN J /\ J[j][1] = k
      BY <3>2
    <3> HIDE DEF j
    <3>5. J[j][2] = J[i][2]
      BY <1>1, <3>2, <3>4 DEF OneMemberEach, Calls
    <3>6. val[m] = OriginalOf(G)[m]
      BY DEF Kept
    <3>. QED BY <3>1, <3>2, <3>3, <3>5, <3>6
  <2>. QED BY <2>2, <2>3
<1>3. Kept(G, new)
  BY <1>2, Zenon DEF Kept
<1>. QED BY <1>1, <1>3 DEF J

LEMMA KeptThroughBytes ==
  ASSUME NEW G, Regular(G), NEW val, Kept(G, val)
  PROVE  /\ Fits(G.Deserialize, Written(G.Serialize, val))
         /\ Kept(G, ReadBack(G.Deserialize, Written(G.Serialize, val), MembersFor(G)))
<1> DEFINE L == G.Serialize
           w == Written(L, val)
           new == ReadBack(L, w, MembersFor(G))
<1>1. /\ G.Deserialize = L /\ IsLayout(L) /\ AllCalls(Calls(L))
      /\ \A m \in G.Equal : m \in MembersIn(Calls(L)) \/ m \notin MembersIn(Calls(G.FromJson))
  BY DEF Regular, Consistent
<1>2. IsLayout(w) /\ Len(w) = Len(L) /\ \A i \in DOMAIN L : w[i] = <<L[i][1], val[L[i][2]]>>
  BY <1>1, WrittenStream
<1>3. MembersOf(L) = MembersIn(Calls(L))
  BY <1>1, MembersOfCalls
<1> HIDE DEF w
<1>4. Fits(L, w)
  BY <1>2 DEF Fits
<1> HIDE DEF L
<1>5. ASSUME NEW m \in G.Equal \cup MembersOf(L) PROVE new[m] = OriginalOf(G)[m]
  <2> DEFINE calls == {i \in DOMAIN L : L[i][2] = m}
  <2>1. m \in MembersFor(G)
    BY DEF MembersFor, L
  <2>2. CASE calls = {}
    <3>1. new[m] = Unset
      BY <2>1, <2>2 DEF ReadBack
    <3>2. m \notin MembersIn(Calls(L))
      BY <2>2 DEF MembersIn, Calls
    <3>3. m \notin MembersIn(Calls(G.FromJson))
      BY <1>1, <1>3, <3>2
    <3>4. {i \in DOMAIN G.FromJson : G.FromJson[i][2] = m} = {}
      BY <3>3 DEF MembersIn, Calls
    <3>5. OriginalOf(G)[m] = Unset
      BY <2>1, <3>4 DEF OriginalOf, FromJsonOf
    <3>. QED BY <3>1, <3>5
  <2>3. CASE calls # {}
    <3> DEFINE i == CHOOSE n \in calls : TRUE
    <3>1. new[m] = w[i][2]
      BY <2>1, <2>3 DEF ReadBack
    <3>2. i \in DOMAIN L /\ L[i][2] = m
      BY <2>3
    <3> HIDE DEF i
    <3>3. w[i][2] = val[m]
      BY <1>2, <3>2
    <3>4. val[m] = OriginalOf(G)[m]
      BY DEF Kept, L
    <3>. QED BY <3>1, <3>3, <3>4
  <2>. QED BY <2>2, <2>3
<1>6. Kept(G, new)
  BY <1>5, Zenon DEF Kept, L
<1>. QED BY <1>1, <1>4, <1>6 DEF L, w

LEMMA KeptThroughAssign ==
  ASSUME NEW G, Regular(G), NEW val, Kept(G, val)
  PROVE  Kept(G, [m \in MembersFor(G) |-> IF m \in G.Copy THEN val[m] ELSE Unset])
<1>1. AllCalls(Calls(G.Serialize)) /\ G.Equal \cup MembersIn(Calls(G.Serialize)) \subseteq G.Copy
  BY DEF Regular, Consistent
<1>2. MembersOf(G.Serialize) = MembersIn(Calls(G.Serialize))
  BY <1>1, MembersOfCalls
<1>. QED BY <1>1, <1>2 DEF Kept, MembersFor

LEMMA KeptBytes ==
  ASSUME NEW G, NEW val, Kept(G, val), AllCalls(Calls(G.Serialize))
  PROVE  Written(G.Serialize, val) = Written(G.Serialize, OriginalOf(G))
<1> DEFINE L == G.Serialize
<1>1. \A i \in DOMAIN L : val[L[i][2]] = OriginalOf(G)[L[i][2]]
  <2> SUFFICES ASSUME NEW i \in DOMAIN L PROVE val[L[i][2]] = OriginalOf(G)[L[i][2]]
    OBVIOUS
  <2>1. L[i][2] \in MembersOf(L)
    BY DEF MembersOf, AllCalls, Calls, IsCall
  <2>. QED BY <2>1 DEF Kept
<1>. QED BY <1>1 DEF Written

\* Nothing is kept where nothing is written or compared.
LEMMA KeptBlank ==
  ASSUME NEW G, Calls(G.Serialize) = {}, G.Equal = {}, NEW val
  PROVE  Kept(G, val) /\ AllCalls(Calls(G.Serialize))
<1>1. MembersOf(G.Serialize) = {}
  BY DEF MembersOf, Calls
<1>. QED BY <1>1 DEF Kept, AllCalls

\* An object has the members of the JSON value it was made from, bytes and JSON are
\* those of such an object, and only the classes that may be refused are.
FormInv ==
  /\ class \in Classes
  /\ form = "object" => Kept(F, content)
  /\ form = "bytes" => \E val : Kept(F, val) /\ content = Written(F.Serialize, val)
  /\ form = "json" =>
       \/ content = [k \in KeysOf(F.FromJson) |-> k]
       \/ \E val : Kept(F, val) /\ content = JsonOf(F.ToJson, val)
  /\ form = "refused" => MayRefuse(class[1], class[2])

LEMMA SoundF ==
  ASSUME class \in Classes
  PROVE  /\ Sound(class[1], class[2], F) /\ class = <<class[1], class[2]>> /\ class[2] \in Nat
         /\ Regular(F) \/ (MayRefuse(class[1], class[2]) /\ Calls(F.Serialize) = {} /\ F.Equal = {})
         /\ AllCalls(Calls(F.Serialize))
<1>1. class[1] \in PlainClasses \cup ProposalTypes /\ class[2] \in Nat /\ class = <<class[1], class[2]>>
  BY ClassesAssumption
<1>2. Sound(class[1], class[2], F)
  BY <1>1, SoundClasses DEF F
<1>3. Regular(F) \/ (MayRefuse(class[1], class[2]) /\ Calls(F.Serialize) = {} /\ F.Equal = {})
  BY <1>2 DEF Sound
<1>4. AllCalls(Calls(F.Serialize))
  BY <1>3 DEF Regular, Consistent, AllCalls
<1>. QED BY <1>1, <1>2, <1>3, <1>4

LEMMA InitFormInv == FormInit => FormInv
BY DEF FormInit, FormInv, Given

LEMMA NextFormInv == FormInv /\ [FormNext]_formVars => FormInv'
<1> SUFFICES ASSUME FormInv, [FormNext]_formVars PROVE FormInv'
  OBVIOUS
<1>0. class \in Classes
  BY DEF FormInv
<1>1. /\ Members = MembersFor(F)
      /\ Regular(F) \/ (MayRefuse(class[1], class[2]) /\ Calls(F.Serialize) = {} /\ F.Equal = {})
  BY <1>0, SoundF DEF Members, MembersFor
<1>2. class' = class
  BY DEF FormNext, formVars, FromJson, ToJson, Serialize, Deserialize, Assign
<1>3. F' = F
  BY <1>2 DEF F
<1>4. CASE FromJson
  <2>1. form = "json" /\ form' = "object" /\ content' = FromJsonOf(F.FromJson, content, MembersFor(F))
    BY <1>1, <1>4 DEF FromJson
  <2>2. Kept(F, content')
    <3>1. CASE ~Regular(F)
      BY <1>1, <3>1, KeptBlank
    <3>2. CASE content = [k \in KeysOf(F.FromJson) |-> k]
      BY <2>1, <3>2 DEF Kept, OriginalOf
    <3>3. CASE Regular(F) /\ \E val : Kept(F, val) /\ content = JsonOf(F.ToJson, val)
      BY <2>1, <3>3, KeptThroughJson
    <3>. QED BY <2>1, <3>1, <3>2, <3>3 DEF FormInv
  <2>. QED BY <1>0, <1>2, <1>3, <2>1, <2>2 DEF FormInv
<1>5. CASE ToJson
  <2>1. form = "object" /\ form' = "json" /\ content' = JsonOf(F.ToJson, content)
    BY <1>5 DEF ToJson
  <2>. QED BY <1>0, <1>2, <1>3, <2>1 DEF FormInv
<1>6. CASE Serialize
  <2>1. form = "object" /\ form' = "bytes" /\ content' = Written(F.Serialize, content)
    BY <1>6 DEF Serialize, Bytes
  <2>. QED BY <1>0, <1>2, <1>3, <2>1 DEF FormInv
<1>7. CASE Deserialize
  <2>1. PICK val : Kept(F, val) /\ content = Written(F.Serialize, val)
    BY <1>7 DEF FormInv, Deserialize
  <2>2. CASE Fits(F.Deserialize, content)
    <3>1. form' = "object" /\ content' = ReadBack(F.Deserialize, content, MembersFor(F))
      BY <1>1, <1>7, <2>2 DEF Deserialize
    <3>2. Kept(F, content')
      BY <1>1, <2>1, <3>1, KeptThroughBytes, KeptBlank
    <3>. QED BY <1>0, <1>2, <1>3, <3>1, <3>2 DEF FormInv
  <2>3. CASE ~Fits(F.Deserialize, content)
    <3>1. form' = "refused"
      BY <1>7, <2>3 DEF Deserialize
    <3>2. MayRefuse(class[1], class[2])
      BY <1>1, <2>1, <2>3, KeptThroughBytes
    <3>. QED BY <1>0, <1>2, <1>3, <3>1, <3>2 DEF FormInv
  <2>. QED BY <2>2, <2>3
<1>8. CASE Assign
  <2>1. /\ form = "object" /\ form' = "object"
        /\ content' = [m \in MembersFor(F) |-> IF m \in F.Copy THEN content[m] ELSE Unset]
    BY <1>1, <1>8 DEF Assign
  <2>2. Kept(F, content)
    BY <2>1 DEF FormInv
  <2>3. Kept(F, content')
    BY <1>1, <2>1, <2>2, KeptThroughAssign, KeptBlank
  <2>. QED BY <1>0, <1>2, <1>3, <2>1, <2>3 DEF FormInv
<1>9. CASE UNCHANGED formVars
  BY <1>3, <1>9 DEF FormInv, formVars
<1>. QED BY <1>4, <1>5, <1>6, <1>7, <1>8, <1>9 DEF FormNext

LEMMA FormInvBytesKept == FormInv => BytesKept
<1> SUFFICES ASSUME FormInv PROVE BytesKept
  OBVIOUS
<1>0. class \in Classes
  BY DEF FormInv
<1>1. ASSUME form = "object" PROVE Bytes(content) = Bytes(Original)
  <2>1. Kept(F, content) /\ AllCalls(Calls(F.Serialize))
    BY <1>0, <1>1, SoundF DEF FormInv
  <2>2. Original = OriginalOf(F)
    BY DEF Original, OriginalOf, Given, Members, MembersFor
  <2>. QED BY <2>1, <2>2, KeptBytes DEF Bytes
<1>2. ASSUME form = "refused"
      PROVE  class[1] \in UpgradeTypes \/ (class[1] = "RechargeToSideChain" /\ class[2] > 1)
  BY <1>2 DEF FormInv, MayRefuse
<1>3. ASSUME form = "json", class[1] \notin UpgradeTypes PROVE KeysOf(F.FromJson) \subseteq DOMAIN content
  <2>1. F.ToJson = F.FromJson
    BY <1>0, <1>3, SoundF DEF Sound
  <2>. QED BY <1>3, <2>1 DEF FormInv, JsonOf
<1>. QED BY <1>1, <1>2, <1>3 DEF BytesKept

\* Whatever a payload of whatever class and version goes through, in whatever order
\* and as often as one likes, its bytes are those of the JSON value it was made from;
\* only the upgrade proposals and the unknown versions of RechargeToSideChain are
\* refused when they are read.
THEOREM SpecBytesKept == FormSpec => []BytesKept
<1>1. FormInit => FormInv
  BY InitFormInv
<1>2. FormInv /\ [FormNext]_formVars => FormInv'
  BY NextFormInv
<1>3. FormInv => BytesKept
  BY FormInvBytesKept
<1>. QED BY <1>1, <1>2, <1>3, PTL DEF FormSpec

LEMMA FormInvEqual == FormInv => EqualSeesBytes
<1> SUFFICES ASSUME FormInv, form = "object" PROVE EqualSeesBytes
  BY DEF EqualSeesBytes
<1>0. class \in Classes
  BY DEF FormInv
<1>1. Sound(class[1], class[2], F) /\ class = <<class[1], class[2]>> /\ AllCalls(Calls(F.Serialize))
  BY <1>0, SoundF
<1>2. Original = OriginalOf(F)
  BY DEF Original, OriginalOf, Given, Members, MembersFor
<1>3. \A m \in F.Equal : content[m] = Original[m]
  BY <1>2 DEF FormInv, Kept
<1>4. MembersOf(F.Serialize) = MembersIn(Calls(F.Serialize))
  BY <1>1, MembersOfCalls
<1>5. \A m \in MembersOf(F.Serialize) : m \in F.Equal \/ (class = <<"CRInfo", CRInfoDIDVersion>> /\ m = "did")
  BY <1>1, <1>4 DEF Sound, CRInfoDIDVersion
<1>6. class[1] \in PlainClasses \cup ProposalTypes /\ class[2] \in Nat
  BY <1>0, ClassesAssumption
<1>7. F.Comparable <=> ~Incomparable(class[1], class[2])
  BY <1>6, ComparableClasses DEF F
<1>8. EqualTo(content, Original) <=>
        ~ \/ class[1] \in {"RechargeToSideChain", "TransferCrossChainAsset"} /\ class[2] > 1
          \/ class[1] \in UpgradeTypes \cup {"UpgradeCodeInfo"}
  BY <1>3, <1>7, Zenon DEF EqualTo, Incomparable
<1>. QED BY <1>5, <1>8, Zenon DEF EqualSeesBytes

\* An object that went through any conversions is equal to the one it was made from
\* just where Equal finds anything equal: for every class and version but the unknown
\* versions of RechargeToSideChain and TransferCrossChainAsset, the upgrade proposals
\* and UpgradeCodeInfo.  Equal looks at every member that is written, but for the DID
\* of a CRInfo of version 1.
THEOREM SpecEqualSeesBytes == FormSpec => []EqualSeesBytes
<1>1. FormInit => FormInv
  BY InitFormInv
<1>2. FormInv /\ [FormNext]_formVars => FormInv'
  BY NextFormInv
<1>3. FormInv => EqualSeesBytes
  BY FormInvEqual
<1>. QED BY <1>1, <1>2, <1>3, PTL DEF FormSpec

LEMMA FormInvEstimate == FormInv => EstimateCountsBytes
<1> SUFFICES ASSUME FormInv, class[1] \notin UpgradeTypes PROVE EstimateCountsBytes
  BY DEF EstimateCountsBytes
<1>1. class \in Classes
  BY DEF FormInv
<1>2. Counted(F) <=> ~Miscounted(class[1], class[2])
  BY <1>1, SoundF DEF Sound
<1>3. Counted(F) <=> {F.EstimateSize[i] : i \in DOMAIN F.EstimateSize} = {F.Serialize[i] : i \in DOMAIN F.Serialize}
  BY DEF Counted, Calls
<1>. QED BY <1>2, <1>3, Zenon DEF EstimateCountsBytes, Miscounted

\* The size of a payload is counted exactly, for every class and version but those
\* that are named, and for those it is not.
THEOREM SpecEstimateCountsBytes == FormSpec => []EstimateCountsBytes
<1>1. FormInit => FormInv
  BY InitFormInv
<1>2. FormInv /\ [FormNext]_formVars => FormInv'
  BY NextFormInv
<1>3. FormInv => EstimateCountsBytes
  BY FormInvEstimate
<1>. QED BY <1>1, <1>2, <1>3, PTL DEF FormSpec
=============================================================================
