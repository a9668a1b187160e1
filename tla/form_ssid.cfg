SPECIFICATION Spec
CONSTANTS
  Bytes = {0}
  HeaderSize = 0
  AnswerSize = 2
  MaxPayload = 1
  Names <- SomeNames
  Passwords <- SomePasswords
  BodySize = 100
  SsidSize = 32
  PasswordSize = 64
INVARIANT SsidSaved
\* A packet or a form is handled once.
CHECK_DEADLOCK FALSE
