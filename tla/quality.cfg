SPECIFICATION FairSpec
CONSTANTS
  r1 = r1
  r2 = r2
  Clients <- MCClients
  MSG_SIZE <- MCMsgSize
  Quality0 <- MCQuality0
  MaxKeys <- MCMaxKeys
INVARIANTS
TypeOK
NoKeyLost
PROPERTIES
ImplementsKnob
BufferedKeysGoOut
EncoderFollows
