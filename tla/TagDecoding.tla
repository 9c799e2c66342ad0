----------------------------- MODULE TagDecoding -----------------------------
(***************************************************************************)
(* decodeTags and getTagValue (src/services/webhook.service.ts): the       *)
(* gateway sends the tags of a transaction as plain text or base64url.  A  *)
(* text is what it says once plain, and how many times it is encoded; -1   *)
(* is what decoding plain text leaves.                                     *)
(***************************************************************************)
EXTENDS Integers, SequencesExt

\* Tag names: three of the five decodeTags knows, a tag of the protocol it does not
\* know, one it knows but in lower case, and two names of other applications, the
\* last with a character that is not base64url.
Names == {"Protocol", "C2PA-Manifest-ID", "C2PA-Storage-Mode",
          "C2PA-Asset-Hash", "protocol", "App-Name", "App Name"}
KnownNames == {"Protocol", "C2PA-Manifest-ID", "C2PA-Storage-Mode"}
Values == {"v", "w"}

Lowered(name) == IF name = "protocol" THEN "Protocol" ELSE name

Text(says, layers) == [says |-> says, layers |-> layers]
Tag(name, value, layers) == [name |-> Text(name, layers), value |-> Text(value, layers)]

DecodeText(t) == Text(t.says, IF t.layers = 1 THEN 0 ELSE -1)

\* BASE64URL_RE: an encoded name, or plain text that happens to look like one.
Base64Url(t) == t.layers = 1 \/ (t.layers = 0 /\ t.says # "App Name")

\* Fault variant of AlreadyPlain: only the first tag is looked at.
FirstIsPlain(tags) == tags[1].name.layers = 0 /\ tags[1].name.says \in KnownNames

AlreadyPlain(tags) ==
  \E i \in DOMAIN tags : tags[i].name.layers = 0 /\ tags[i].name.says \in KnownNames

DecodeTags(tags) ==
  IF tags = <<>> THEN tags
  ELSE IF AlreadyPlain(tags) \/ ~Base64Url(tags[1].name) THEN tags
  ELSE [i \in DOMAIN tags |->
          [name |-> DecodeText(tags[i].name), value |-> DecodeText(tags[i].value)]]

\* getTagValue: the first tag of the name, in upper or lower case; "" if none.
GetTagValue(tags, name) ==
  LET of == {i \in DOMAIN tags : /\ tags[i].name.layers = 0
                                 /\ Lowered(tags[i].name.says) = name}
  IN IF of = {} THEN Text("", 0) ELSE tags[Min(of)].value
=============================================================================
