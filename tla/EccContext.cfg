\* One SDK call at a time, sanity checks that may fail.
SPECIFICATION Spec
CONSTANTS
  Thread = {t1, t2}
  Call = {"createKeyPairs", "createAssetSendTx", "createStreamPublishTx", "VerifyMessage", "SignMessage", "createMultisigRedeemScript"}
  Addr = {a1, a2}
  NULL = NULL
  Exclusive = TRUE
  SanityMayFail = TRUE
INVARIANTS NoAssertFails NoLeak ContextsAreLive
