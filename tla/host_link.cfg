SPECIFICATION OutboundSpec
CONSTANTS
  Addr = {tcp, quic}
  RedialMax = 3
  AttemptCap = 2
  MaxConns = 2
  SubscribeMayFail = TRUE
  result = result
  pcsBid = pcsBid
  bid = bid
  Plain = {result, pcsBid}
  Acked = {bid}
  Attempts <- MCAttempts
INVARIANTS
  OutboundTypeOK
  Heard
  RedialArmed
  AckedReceived
PROPERTIES
  BackoffGrows
  Reconnects
  PlainSendsEnd
