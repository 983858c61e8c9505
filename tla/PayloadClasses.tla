--------------------------- MODULE PayloadClasses ---------------------------
(***************************************************************************)
(* The classes by name: what the virtual functions of an object of that    *)
(* class are.  A CRCProposal goes by the name of its proposal type.        *)
(***************************************************************************)
EXTENDS CRCProposal

PlainClasses ==
  {"CoinBase", "Asset", "RegisterAsset", "TransferAsset", "Record", "SideChainPow",
   "RechargeToSideChain", "WithdrawFromSideChain", "TransferInfo", "TransferCrossChainAsset",
   "ProducerInfo", "CancelProducer", "ReturnDepositCoin", "NextTurnDPoSInfo", "CRInfo",
   "UnregisterCR", "CRCouncilMemberClaimNode", "CRCAssetsRectify", "CRCProposalRealWithdraw",
   "CRCProposalReview", "CRCProposalTracking", "CRCProposalWithdraw", "CRCAppropriation",
   "VotesWithLockTime", "VotesContent", "RenewalVotesContent", "Voting", "Stake", "Unstake",
   "DPoSV2ClaimReward", "CancelVotes", "UnstakeRealWithdraw", "DPoSV2ClaimRewardRealWithdraw",
   "RegisterIdentification", "DIDHeaderInfo", "DIDProofInfo", "DIDInfo", "CandidateVotes",
   "VoteContent", "PayloadVote", "PayloadCrossChain", "PayloadStake", "PayloadDefault",
   "Attribute", "TransactionInput", "Program", "Budget", "UpgradeCodeInfo", "SideChainInfo",
   "CustomIDFeeRateInfo"}

\* The class of an object decides which virtual functions are called.
Functions(c, v) ==
  CASE c = "CoinBase"                 -> CoinBase(v)
    [] c = "Asset"                    -> Asset(v)
    [] c = "RegisterAsset"            -> RegisterAsset(v)
    [] c = "TransferAsset"            -> TransferAsset(v)
    [] c = "Record"                   -> Record(v)
    [] c = "SideChainPow"             -> SideChainPow(v)
    [] c = "RechargeToSideChain"      -> RechargeToSideChain(v)
    [] c = "WithdrawFromSideChain"    -> WithdrawFromSideChain(v)
    [] c = "TransferInfo"             -> TransferInfo(v)
    [] c = "TransferCrossChainAsset"  -> TransferCrossChainAsset(v)
    [] c = "ProducerInfo"             -> ProducerInfo(v)
    [] c = "CancelProducer"           -> CancelProducer(v)
    [] c = "ReturnDepositCoin"        -> ReturnDepositCoin(v)
    [] c = "NextTurnDPoSInfo"         -> NextTurnDPoSInfo(v)
    [] c = "CRInfo"                   -> CRInfo(v)
    [] c = "UnregisterCR"             -> UnregisterCR(v)
    [] c = "CRCouncilMemberClaimNode" -> CRCouncilMemberClaimNode(v)
    [] c = "CRCAssetsRectify"         -> CRCAssetsRectify(v)
    [] c = "CRCProposalRealWithdraw"  -> CRCProposalRealWithdraw(v)
    [] c = "CRCProposalReview"        -> CRCProposalReview(v)
    [] c = "CRCProposalTracking"      -> CRCProposalTracking(v)
    [] c = "CRCProposalWithdraw"      -> CRCProposalWithdraw(v)
    [] c = "CRCAppropriation"         -> CRCAppropriation(v)
    [] c = "VotesWithLockTime"        -> VotesWithLockTime(v)
    [] c = "VotesContent"             -> VotesContent(v)
    [] c = "RenewalVotesContent"      -> RenewalVotesContent(v)
    [] c = "Voting"                   -> Voting(v)
    [] c = "Stake"                    -> Stake(v)
    [] c = "Unstake"                  -> Unstake(v)
    [] c = "DPoSV2ClaimReward"        -> DPoSV2ClaimReward(v)
    [] c = "CancelVotes"              -> CancelVotes(v)
    [] c = "UnstakeRealWithdraw"      -> UnstakeRealWithdraw(v)
    [] c = "DPoSV2ClaimRewardRealWithdraw" -> DPoSV2ClaimRewardRealWithdraw(v)
    [] c = "RegisterIdentification"   -> RegisterIdentification(v)
    [] c = "DIDHeaderInfo"            -> DIDHeaderInfo(v)
    [] c = "DIDProofInfo"             -> DIDProofInfo(v)
    [] c = "DIDInfo"                  -> DIDInfo(v)
    [] c = "CandidateVotes"           -> CandidateVotes(v)
    [] c = "VoteContent"              -> VoteContent(v)
    [] c = "PayloadVote"              -> PayloadVote(v)
    [] c = "PayloadCrossChain"        -> PayloadCrossChain(v)
    [] c = "PayloadStake"             -> PayloadStake(v)
    [] c = "PayloadDefault"           -> PayloadDefault(v)
    [] c = "Attribute"                -> Attribute(v)
    [] c = "TransactionInput"         -> TransactionInput(v)
    [] c = "Program"                  -> Program(v)
    [] c = "Budget"                   -> Budget(v)
    [] c = "UpgradeCodeInfo"          -> UpgradeCodeInfo(v)
    [] c = "SideChainInfo"            -> SideChainInfo(v)
    [] c = "CustomIDFeeRateInfo"      -> CustomIDFeeRateInfo(v)
    [] c \in ProposalTypes            -> CRCProposal(c, v)
=============================================================================
