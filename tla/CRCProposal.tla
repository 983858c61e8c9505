---------------------------- MODULE CRCProposal ----------------------------
(***************************************************************************)
(* The proposals of the CR council (CRCProposal.cpp).  All types share a   *)
(* head and a tail; in between comes the body of the type.  A proposal is  *)
(* signed in turns: the owner, and a new owner or a new secretary general  *)
(* where there is one, over the head and the body; then a member of the    *)
(* council over all of that, the signatures, and its own DID.              *)
(***************************************************************************)
EXTENDS Payloads

-----------------------------------------------------------------------------
(* The classes of members of a proposal *)

Budget(v) ==
  Uniform(<<Uint8("type"), Uint8("stage"), Uint64("amount")>>,
          << <<"Type", "type">>, <<"Stage", "stage">>, <<"Amount", "amount">> >>)

\* The class has no operator==.
UpgradeCodeInfo(v) ==
  [Uniform(<<Uint32("workingHeight"), VarBytes("nodeVersion"), VarBytes("nodeDownloadUrl"),
            Hash256("nodeBinHash"), Uint8("force")>>,
          << <<"WorkingHeight", "workingHeight">>, <<"NodeVersion", "nodeVersion">>,
             <<"NodeDownloadUrl", "nodeDownloadUrl">>, <<"NodeBinHash", "nodeBinHash">>,
             <<"Force", "force">> >>)
   EXCEPT !.Comparable = FALSE]

SideChainInfo(v) ==
  Uniform(<<VarBytes("sideChainName"), Uint32("magicNumber"), Hash256("genesisHash"),
            Uint64("exchangeRate"), Uint32("effectiveHeight"), VarBytes("resourcePath")>>,
          << <<"SideChainName", "sideChainName">>, <<"MagicNumber", "magicNumber">>,
             <<"GenesisHash", "genesisHash">>, <<"ExchangeRate", "exchangeRate">>,
             <<"EffectiveHeight", "effectiveHeight">>, <<"ResourcePath", "resourcePath">> >>)

CustomIDFeeRateInfo(v) ==
  Uniform(<<Uint64("rateOfCustomIDFee"), Uint32("eIDEffectiveHeight")>>,
          << <<"RateOfCustomIDFee", "rateOfCustomIDFee">>,
             <<"EIDEffectiveHeight", "eIDEffectiveHeight">> >>)

-----------------------------------------------------------------------------
(* The bodies of the types: bytes, keys, and the signatures that the       *)
(* validity check of the type verifies, each with the key it verifies it   *)
(* with.                                                                   *)

NormalOrELIP == <<Nested("Budget[]", "budgets"), Hash168("recipient")>>

NormalOrELIPKeys == << <<"Budgets", "budgets">>, <<"Recipient", "recipient">> >>

NormalVerified == << <<"signature", "ownerPublicKey">> >>

ChangeOwner ==
  <<Hash256("targetProposalHash"), Hash168("newRecipient"), VarBytes("newOwnerPublicKey")>>

ChangeOwnerKeys ==
  << <<"TargetProposalHash", "targetProposalHash">>, <<"NewRecipient", "newRecipient">>,
     <<"NewOwnerPublicKey", "newOwnerPublicKey">> >>

ChangeOwnerVerified ==
  << <<"signature", "ownerPublicKey">>, <<"newOwnerSignature", "newOwnerPublicKey">> >>

TerminateProposal == <<Hash256("targetProposalHash")>>

TerminateProposalKeys == << <<"TargetProposalHash", "targetProposalHash">> >>

TerminateProposalVerified == << <<"signature", "ownerPublicKey">> >>

SecretaryElection == <<VarBytes("secretaryPublicKey"), Hash168("secretaryDID")>>

SecretaryElectionKeys ==
  << <<"SecretaryGeneralPublicKey", "secretaryPublicKey">>,
     <<"SecretaryGeneralDID", "secretaryDID">> >>

SecretaryElectionVerified ==
  << <<"signature", "ownerPublicKey">>, <<"secretarySignature", "secretaryPublicKey">> >>

ReserveCustomID == <<Nested("VarBytes[]", "reservedCustomIDList")>>

ReserveCustomIDKeys == << <<"ReservedCustomIDList", "reservedCustomIDList">> >>

ReserveCustomIDVerified == << <<"signature", "ownerPublicKey">> >>

ReceiveCustomID == <<Nested("VarBytes[]", "receivedCustomIDList"), Hash168("receiverDID")>>

ReceiveCustomIDKeys ==
  << <<"ReceivedCustomIDList", "receivedCustomIDList">>, <<"ReceiverDID", "receiverDID">> >>

ReceiveCustomIDVerified == << <<"signature", "ownerPublicKey">> >>

ChangeCustomIDFee == <<Nested("CustomIDFeeRateInfo", "customIDFeeRateInfo")>>

ChangeCustomIDFeeKeys == << <<"CustomIDFeeRateInfo", "customIDFeeRateInfo">> >>

ChangeCustomIDFeeVerified == << <<"signature", "ownerPublicKey">> >>

RegisterSidechain == <<Nested("SideChainInfo", "sidechainInfo")>>

RegisterSidechainKeys == << <<"SidechainInfo", "sidechainInfo">> >>

RegisterSidechainVerified == << <<"signature", "ownerPublicKey">> >>

UpgradeCode == <<Nested("UpgradeCodeInfo", "upgradeCodeInfo")>>

-----------------------------------------------------------------------------
(* The dispatchers over the type *)

UpgradeTypes == {"mainChainUpgradeCode", "didUpdateCode", "ethUpdateCode"}

ProposalTypes ==
  {"normal", "elip", "changeProposalOwner", "terminateProposal", "secretaryGeneralElection",
   "reserveCustomID", "receiveCustomID", "changeCustomIDFee", "registerSideChain"} \cup UpgradeTypes

Body(t) ==
  CASE t \in {"normal", "elip"}         -> NormalOrELIP
    [] t = "changeProposalOwner"        -> ChangeOwner
    [] t = "terminateProposal"          -> TerminateProposal
    [] t = "secretaryGeneralElection"   -> SecretaryElection
    [] t = "reserveCustomID"            -> ReserveCustomID
    [] t = "receiveCustomID"            -> ReceiveCustomID
    [] t = "changeCustomIDFee"          -> ChangeCustomIDFee
    [] t = "registerSideChain"          -> RegisterSidechain
    [] t \in UpgradeTypes               -> UpgradeCode

BodyKeys(t) ==
  CASE t \in {"normal", "elip"}         -> NormalOrELIPKeys
    [] t = "changeProposalOwner"        -> ChangeOwnerKeys
    [] t = "terminateProposal"          -> TerminateProposalKeys
    [] t = "secretaryGeneralElection"   -> SecretaryElectionKeys
    [] t = "reserveCustomID"            -> ReserveCustomIDKeys
    [] t = "receiveCustomID"            -> ReceiveCustomIDKeys
    [] t = "changeCustomIDFee"          -> ChangeCustomIDFeeKeys
    [] t = "registerSideChain"          -> RegisterSidechainKeys

\* The upgrade types are not among the cases of IsValid: they are never valid.
Verified(t) ==
  CASE t \in {"normal", "elip"}         -> NormalVerified
    [] t = "changeProposalOwner"        -> ChangeOwnerVerified
    [] t = "terminateProposal"          -> TerminateProposalVerified
    [] t = "secretaryGeneralElection"   -> SecretaryElectionVerified
    [] t = "reserveCustomID"            -> ReserveCustomIDVerified
    [] t = "receiveCustomID"            -> ReceiveCustomIDVerified
    [] t = "changeCustomIDFee"          -> ChangeCustomIDFeeVerified
    [] t = "registerSideChain"          -> RegisterSidechainVerified

\* What the owner signs, and a new owner or secretary general as well.
OwnerUnsigned(t, v) ==
  <<Uint16("type"), VarBytes("categoryData"), VarBytes("ownerPublicKey"), Hash256("draftHash")>>
  \o When(v >= 1 /\ t \notin UpgradeTypes, <<VarBytes("draftData")>>)
  \o Body(t)

\* The signature of the party, other than the owner, that the type is about.
Cosigned(t) ==
  When(t = "changeProposalOwner", <<VarBytes("newOwnerSignature")>>)
  \o When(t = "secretaryGeneralElection", <<VarBytes("secretarySignature")>>)

\* What the member of the council signs.
CRCouncilMemberUnsigned(t, v) ==
  OwnerUnsigned(t, v) \o <<VarBytes("signature")>> \o Cosigned(t) \o <<Hash168("crCouncilMemberDID")>>

ProposalKeys(t, v) ==
  << <<"Type", "type">>, <<"CategoryData", "categoryData">>,
     <<"OwnerPublicKey", "ownerPublicKey">>, <<"DraftHash", "draftHash">> >>
  \o When(v >= 1, << <<"DraftData", "draftData">> >>)
  \o BodyKeys(t) \o << <<"Signature", "signature">> >>
  \o When(t = "changeProposalOwner", << <<"NewOwnerSignature", "newOwnerSignature">> >>)
  \o When(t = "secretaryGeneralElection", << <<"SecretaryGeneralSignature", "secretarySignature">> >>)
  \o << <<"CRCouncilMemberDID", "crCouncilMemberDID">>,
        <<"CRCouncilMemberSignature", "crCouncilMemberSignature">> >>

\* operator= copies the members of all types.
Copied ==
  {"type", "categoryData", "ownerPublicKey", "draftHash", "draftData", "budgets", "recipient",
   "targetProposalHash", "reservedCustomIDList", "receivedCustomIDList", "receiverDID",
   "customIDFeeRateInfo", "newRecipient", "newOwnerPublicKey", "secretaryPublicKey",
   "secretaryDID", "signature", "newOwnerSignature", "secretarySignature", "upgradeCodeInfo",
   "sidechainInfo", "crCouncilMemberDID", "crCouncilMemberSignature"}

\* Equal: the members of the type, and the draft data where it is written.
Compared(t, v) ==
  {"type", "categoryData", "ownerPublicKey", "draftHash", "signature", "crCouncilMemberDID",
   "crCouncilMemberSignature"} \cup MembersOf(Body(t)) \cup MembersOf(Cosigned(t))
  \cup IF v >= 1 THEN {"draftData"} ELSE {}

\* EstimateSize counts the body and the owner's signature for the first five
\* types only.
Estimated(t, v) ==
  <<Uint16("type"), VarBytes("categoryData"), VarBytes("ownerPublicKey")>>
  \o When(v >= 1, <<VarBytes("draftData")>>) \o <<Hash256("draftHash")>>
  \o When(t \in {"normal", "elip", "secretaryGeneralElection", "changeProposalOwner", "terminateProposal"},
          Body(t) \o <<VarBytes("signature")>> \o Cosigned(t))
  \o <<Hash168("crCouncilMemberDID"), VarBytes("crCouncilMemberSignature")>>

\* Only Deserialize knows the three upgrade types: for them Serialize writes
\* nothing, ToJson and FromJson, after the type, give up, and Equal finds
\* nothing equal.
CRCProposal(t, v) ==
  LET wire == CRCouncilMemberUnsigned(t, v) \o <<VarBytes("crCouncilMemberSignature")>>
  IN  IF t \in UpgradeTypes
      THEN [Empty EXCEPT !.Deserialize = wire, !.FromJson = << <<"Type", "type">> >>,
                         !.Copy = Copied, !.Comparable = FALSE]
      ELSE [Serialize |-> wire, Deserialize |-> wire,
            ToJson |-> ProposalKeys(t, v), FromJson |-> ProposalKeys(t, v),
            Copy |-> Copied, Equal |-> Compared(t, v), Comparable |-> TRUE,
            EstimateSize |-> Estimated(t, v)]
=============================================================================
