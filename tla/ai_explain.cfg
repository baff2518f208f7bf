SPECIFICATION FairSpec
CONSTANTS
  h1 = h1
  h2 = h2
  t1 = t1
  Handlers = {h1, h2}
  Txs = {t1}
  Versions = {1}
  Bodies = {"text", "blank", "html"}
  HttpRetries = 1
  AiRetries = 1
INVARIANTS PostsBounded AnswersBounded AmbiguousOnlyByRace NoAnalysisWithoutWallet
PROPERTIES StaysSettled RequestEnds
