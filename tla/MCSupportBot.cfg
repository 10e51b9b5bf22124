\* Two copies of the bot and one fault; two senders and two reminders with four commands.
SPECIFICATION MCSpec
CONSTANTS
  k1 = k1  k2 = k2  promise = promise  answer = answer
  Pollers = {1, 2}
  Watchers = {1}
  MaxUpdates = 2
  MaxBatch = 1
  MaxFaults = 1
  Keys = {k1, k2}
  Texts = {promise, answer}
  PartsOf <- PartsOfText
  Promises = {promise}
  Senders = {1, 2}
  Reminders = {1, 2}
  MaxSends = 4
  TELEGRAM_LIMIT = 3
  Answers <- ShortTexts
CHECK_DEADLOCK FALSE
INVARIANTS InboxInv OutboxInv SplitIsSendable
PROPERTY ClientIsHeard
