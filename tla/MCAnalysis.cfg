SPECIFICATION Spec
CONSTANTS
  Emails <- MCEmails
  Answers <- MCAnswers
  MaxHandled = 2
  Contents = {"c1", "c2", "c3"}
  CacheTtl = 2
  CacheLimit = 2
  CacheKeep = 1
  MaxAnalyses = 4
  Texts <- MCTexts
  Senders = {"s1", "s2"}
  Replies <- MCReplies
  Ttl <- MCTtl
  MaxRequests = 3
  LastTime = 4
INVARIANTS
  DecisionsFit
  ContentFits
  BridgeKeepsItsWord
PROPERTIES
  JudgementsFit
CHECK_DEADLOCK FALSE
