--------------------------- MODULE ResultEnvelope ---------------------------
(***************************************************************************)
(* The result envelope of the backend's responses (dto/RefineryResult.ts)  *)
(* and what parsing a response with it does.                               *)
(*                                                                         *)
(* The schemas are zod objects: a z.object accepts an object whose declared *)
(* keys hold values of their schemas, drops the keys it does not declare,  *)
(* and rejects anything else; z.discriminatedUnion('result', ...) rejects  *)
(* a value that is not an object or whose `result` is not one of its        *)
(* literals, and otherwise parses with the option of that literal.  The    *)
(* envelope is the union of the error options with Success(T) and         *)
(* Status(T); the value schema T is taken to be z.string().                *)
(*                                                                         *)
(* A JSON value is abstracted to: a string of Str, a number, or an       *)
(* object, the function from its keys to their values (an array is the     *)
(* function from 1..n).  `input` is the response being parsed, an object   *)
(* or a value that is not one; every step brings the next one.             *)
(***************************************************************************)
EXTENDS FiniteSets, Functions

CONSTANTS
    Absent,      \* a key the object does not have
    Invalid,     \* the parse fails
    Issue,       \* an issue as the Issue schema accepts it
    Number       \* a JSON number

ASSUME ResultEnvelopeAssumption == Absent # Invalid /\ Absent # Number

VARIABLE input

vars == <<input>>

-----------------------------------------------------------------------------
ErrorTags == {"timeout", "cancelled", "requestError", "serverError",
              "invalidProblem", "unsatisfiable"}

Tags == ErrorTags \cup {"success", "status"}

Str == Tags \cup {"text", "other"}

\* A missing key and a JSON number are not strings.
ASSUME AbstractValuesAssumption == Absent \notin Str /\ Number \notin Str

\* Strings and numbers never stand where an object is tested for: a value
\* tested for being an object is an object, a number or Absent.
IsObject(x) == x \notin {Number, Absent}

\* The element of a `details` array that its schema accepts.
Detail == [propertyPath |-> "text", message |-> "text"]

\* The schema of a key: z.string(), the optional array of details, the
\* array of issues, or the value schema T.
Shape ==
    [t \in Tags |->
       CASE t \in {"timeout", "cancelled", "serverError", "unsatisfiable"}
              -> [message |-> "string"]
         [] t = "requestError"
              -> [message |-> "string", details |-> "details?"]
         [] t = "invalidProblem"
              -> [message |-> "string", issues |-> "issues"]
         [] t \in {"success", "status"} -> [value |-> "string"]]

ArrayOf(v, e) ==
    IsObject(v) /\ \E n \in 0..2 : DOMAIN v = 1..n /\ \A i \in 1..n : v[i] = e

\* Mutant: `details` without .optional().
AcceptsRequired(s, v) ==
    \/ s = "string" /\ v \in Str
    \/ s = "details?" /\ ArrayOf(v, Detail)
    \/ s = "issues" /\ ArrayOf(v, Issue)

\* Whether the schema s accepts the value v of a key (Absent if missing).
Accepts(s, v) ==
    \/ s = "string" /\ v \in Str
    \/ s = "details?" /\ (v = Absent \/ ArrayOf(v, Detail))
    \/ s = "issues" /\ ArrayOf(v, Issue)

Get(x, k) == IF k \in DOMAIN x THEN x[k] ELSE Absent

\* z.object(...).parse for the option of tag t: the declared keys the
\* object has, once every declared key is accepted.
ParseObject(t, x) ==
    IF \A k \in DOMAIN Shape[t] : Accepts(Shape[t][k], Get(x, k))
      THEN Restrict(x, ({"result"} \cup DOMAIN Shape[t]) \cap DOMAIN x)
      ELSE Invalid

\* The discriminated union's parse.
Parse(x) ==
    IF IsObject(x) /\ "result" \in DOMAIN x /\ x["result"] \in Tags
      THEN ParseObject(x["result"], x)
      ELSE Invalid

-----------------------------------------------------------------------------
\* The responses the backend may send, as far as the envelope tells apart.
Choices ==
    [result : Tags \cup {"other", Number, Absent},
     message : {"text", Number, Absent},
     details : {<< >>, <<Detail>>, <<Number>>, Absent},
     issues : {<< >>, <<Issue>>, <<Number>>, Absent},
     value : {"text", Number, Absent},
     extra : {"text", Absent}]

Object(c) == [k \in {k \in DOMAIN c : c[k] # Absent} |-> c[k]]

Inputs == {Object(c) : c \in Choices} \cup {Number}

\* zod's parse throws on a rejected response: the failure is no object the
\* parse could hand back.
ASSUME InvalidAssumption ==
    \A c \in Choices : \A D \in SUBSET DOMAIN Object(c) :
        Restrict(Object(c), D) # Invalid

Init == input \in Inputs

\* The client receives and parses the next response.
Receive ==
    /\ input' \in Inputs

Next == Receive

Spec == Init /\ [][Next]_vars

-----------------------------------------------------------------------------
(* Properties.                                                             *)

\* The spec (section 6): the envelope is the tagged union of these eight
\* shapes, each with its own payload, written here as sets of records.
DetailArrays == {<< >>, <<Detail>>, <<Detail, Detail>>}

IssueArrays == {<< >>, <<Issue>>, <<Issue, Issue>>}

\* A JSON number and a missing key are not arrays.
ASSUME ArraysAssumption == {Number, Absent} \cap (DetailArrays \cup IssueArrays) = {}

Envelope ==
    [result : {"timeout", "cancelled", "serverError", "unsatisfiable"},
     message : Str]
      \cup [result : {"requestError"}, message : Str]
      \cup [result : {"requestError"}, message : Str, details : DetailArrays]
      \cup [result : {"invalidProblem"}, message : Str, issues : IssueArrays]
      \cup [result : {"success", "status"}, value : Str]

\* The parse accepts exactly the responses that hold an envelope whose
\* kind has no other key in the response (an optional `details` that is
\* present must be well formed), and gives back the largest such envelope;
\* any other value, an unknown tag among them, is rejected (a protocol
\* violation).
EnvelopeKeys ==
    [t \in Tags |-> UNION {DOMAIN e : e \in {e \in Envelope : e.result = t}}]

Held(x) ==
    IF IsObject(x)
      THEN {r \in {Restrict(x, D) : D \in SUBSET DOMAIN x} :
              /\ r \in Envelope
              /\ DOMAIN x \cap EnvelopeKeys[r.result] \subseteq DOMAIN r}
      ELSE {}

ParseMatchesSchema ==
    Parse(input) =
      IF Held(input) = {} THEN Invalid
      ELSE CHOOSE r \in Held(input) :
             \A q \in Held(input) : Cardinality(DOMAIN q) <= Cardinality(DOMAIN r)

=============================================================================
