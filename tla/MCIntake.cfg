SPECIFICATION Spec
CONSTANTS
  Callers = {"u", "v"}
  Ports = {1, 2}
  MaxTasks = 3
  Demo = {"d1"}
  Created = {"c1"}
  MaxChanges = 2
  Keys = {"ENT", "COM", "bad"}
  Settings = {"complete", "partial"}
  MaxInstances = 4
  Workers = {"w1", "w2"}
  Senders = {"s1", "s2"}
  MaxCalls = 3
  MaxRetries = 3
  MaxBatch = 3
  MaxMails = 2
  Mails <- MCMails
  Parts = {"plugins", "mail", "registry", "filters", "senders"}
INVARIANTS
  RegistryUpToDate
  LabelsInPlace
  SendersKeepTheirWord
  AnswersFit
  PluginInStep
CHECK_DEADLOCK FALSE
