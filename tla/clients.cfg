CONSTANTS
  Values = {1, 2}
  MaxLen = 2
  MaxTx = 1
  Services <- MCServices
  Requests <- MCRequests
  Methods = {"sync", "later"}
  ConsumeMax = 4
  MaxFd = 2
  OptionsUsed = {"O_NONBLOCK", "SO_REUSEADDR", "TCP_NODELAY"}
  MaxAdopted = 1
  Threads = {t1, t2}
  Users = {t1, t2}
  Instances = {a, b}
  Urls = {1, 3}
  BufSize = 2
  MaxCalls = 3
SPECIFICATION MCSpec
INVARIANTS  SocketIsOwn ResponseIsOwn SessionIsOwn
PROPERTY RpcAnswers
CHECK_DEADLOCK FALSE
