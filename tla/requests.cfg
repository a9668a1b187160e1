SPECIFICATION Spec
CONSTANTS
  Bytes <- Byte
  HeaderSize = 1
  AnswerSize = 2
  MaxPayload = 8
  Names <- SomeNames
  Passwords <- SomePasswords
  BodySize = 100
  SsidSize = 32
  PasswordSize = 64
INVARIANTS AnswersQuestion FieldsApart PlainFormSaved
\* A packet or a form is handled once.
CHECK_DEADLOCK FALSE
