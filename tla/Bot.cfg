SPECIFICATION BotSpec
CONSTANTS
  b1 = b1
  b2 = b2
  b3 = b3
  Clients = {bot, c1}
  Nicks = {b1, b2, b3}
  Star = Star
  NoClient = NoClient
  Bot = bot
  Tries <- NickTries
  MaxAsked = 2
INVARIANTS
  NickInSync
PROPERTIES
  BotRegisters QuietsDown
CHECK_DEADLOCK FALSE
