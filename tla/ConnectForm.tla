----------------------------- MODULE ConnectForm -----------------------------
(***************************************************************************)
(* The way of a network's name and password from the portal's page to the  *)
(* configuration of the station: the browser encodes the form of           *)
(* config.html, connect_post_handler receives its body and takes the two   *)
(* fields out of it, wifi_app_connect_sta copies them.                     *)
(*                                                                         *)
(* A text is a sequence of characters: "plain" ones, which the browser     *)
(* sends as they are, "space", which becomes one byte ('+'), and others,   *)
(* "special", which become three ("%XX").  The keys "ssid=" and            *)
(* "password=" are one token each: '=' and '&' are "special", so a key     *)
(* cannot occur in a value.                                                *)
(***************************************************************************)
EXTENDS Integers, SequencesExt

CONSTANTS
  Names, Passwords,   \* what the user selects or types
  BodySize,           \* sizeof(buf) of connect_post_handler
  SsidSize,           \* sizeof(creds->ssid)
  PasswordSize        \* sizeof(creds->password)

ASSUME TextsAssumption ==
  Names \cup Passwords \subseteq Seq({"plain", "space", "special"})
ASSUME FieldSizesAssumption == {BodySize, SsidSize, PasswordSize} \subseteq Nat \ {0}

VARIABLES
  form,     \* the user's name and password
  body,     \* the encoded form
  result,   \* "unsent", "sent", "refused" or "saved"
  buf,      \* what the handler received of the body
  creds     \* what the connect_task is given

formvars == <<form, body, result, buf, creds>>

-----------------------------------------------------------------------------
\* application/x-www-form-urlencoded, the encoding of a form without another.
Escaped(c) ==
  CASE c = "plain" -> <<c>>
    [] c = "space" -> <<"+">>
    [] c = "special" -> <<"%", "X", "X">>

Encoded(text) == FlattenSeq([k \in DOMAIN text |-> Escaped(text[k])])

EncodedForm(f) ==
  <<"ssid=">> \o Encoded(f.ssid) \o <<"&", "password=">> \o Encoded(f.password)

Smaller(a, b) == IF a < b THEN a ELSE b

\* content_len: the keys have 5 and 9 bytes.
ContentLen(b) == Len(b) + IF Len(b) = 0 THEN 0 ELSE 4 + 8

\* Mutants of Field: the value is taken to go on to the end of the body; two
\* bytes are kept free behind it.
FieldToEnd(b, key, size) ==
  LET at == SelectInSeq(b, LAMBDA x : x = key)
  IN IF at = 0 THEN <<>> ELSE SubSeq(b, at + 1, Smaller(Len(b), at + size - 1))
FieldShort(b, key, size) ==
  LET at == SelectInSeq(b, LAMBDA x : x = key)
      value == SubSeq(b, at + 1, Len(b))
      amp == SelectInSeq(value, LAMBDA x : x = "&")
      length == IF amp = 0 THEN Len(value) ELSE amp - 1
  IN IF at = 0 THEN <<>> ELSE SubSeq(value, 1, Smaller(length, size - 2))

\* strstr finds the key, strchr the '&' behind the value, and strncpy takes as
\* much of the value as leaves room for the NUL.
Field(b, key, size) ==
  LET at == SelectInSeq(b, LAMBDA x : x = key)
      value == SubSeq(b, at + 1, Len(b))
      amp == SelectInSeq(value, LAMBDA x : x = "&")
      length == IF amp = 0 THEN Len(value) ELSE amp - 1
  IN IF at = 0 THEN <<>> ELSE SubSeq(value, 1, Smaller(length, size - 1))

NoForm == [ssid |-> <<>>, password |-> <<>>]

FormInit ==
  /\ form = NoForm /\ body = <<>> /\ result = "unsent"
  /\ buf = <<>> /\ creds = NoForm

\* The page requires a name.
Submit ==
  /\ result = "unsent"
  /\ form' \in [ssid : Names, password : Passwords]
  /\ body' = EncodedForm(form')
  /\ result' = "sent"
  /\ UNCHANGED <<buf, creds>>

\* The body and its NUL do not fit buf.
TooLong == ContentLen(body) >= BodySize

Refuse ==
  /\ result = "sent" /\ TooLong
  /\ result' = "refused"
  /\ UNCHANGED <<form, body, buf, creds>>

\* httpd_req_recv is called once: it returns what has come of the body so far,
\* or an error.
Receive ==
  /\ result = "sent" /\ ~TooLong
  /\ \E n \in 1 .. Len(body) : buf' = SubSeq(body, 1, n)
  /\ creds' = [ssid |-> Field(buf', "ssid=", SsidSize),
               password |-> Field(buf', "password=", PasswordSize)]
  /\ result' = "saved"
  /\ UNCHANGED <<form, body>>

ReceiveFails ==
  /\ result = "sent" /\ ~TooLong
  /\ result' = "refused"
  /\ UNCHANGED <<form, body, buf, creds>>

FormNext == Submit \/ Refuse \/ Receive \/ ReceiveFails
FormSpec == FormInit /\ [][FormNext]_formvars

-----------------------------------------------------------------------------
IsPlain(text) == \A k \in DOMAIN text : text[k] = "plain"

\* However little of the body has come, what is saved is the beginning of the
\* user's name and of the user's password, as they were encoded, and it ends in
\* a NUL: neither runs into the other, nor over the end of its array.
FieldsApart ==
  result = "saved" =>
    /\ IsPrefix(creds.ssid, Encoded(form.ssid)) /\ Len(creds.ssid) < SsidSize
    /\ IsPrefix(creds.password, Encoded(form.password))
    /\ Len(creds.password) < PasswordSize

\* A name and a password without special characters, which fit their arrays and
\* together the body's, are saved as they are once the whole body has come.
PlainFormSaved ==
  result = "saved" /\ buf = body /\ IsPlain(form.ssid) /\ IsPlain(form.password)
      /\ Len(form.ssid) < SsidSize /\ Len(form.password) < PasswordSize
    => creds = form

\* config.html: "Select or type SSID".  The network selected there is the one the
\* station is configured for.
SsidSaved == result = "saved" /\ buf = body => creds.ssid = form.ssid
=============================================================================
