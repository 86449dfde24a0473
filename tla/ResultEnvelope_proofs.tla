-------------------------- MODULE ResultEnvelope_proofs --------------------------
(***************************************************************************)
(* Proof that parsing a backend response with the RefineryResult envelope  *)
(* is exactly the largest envelope the response holds, whatever the Issue  *)
(* schema accepts.  On the way (ParseSoundOn) it shows that a response     *)
(* that parses keeps exactly the keys of the option its `result` names,   *)
(* each of the type that option declares.                                  *)
(***************************************************************************)
EXTENDS ResultEnvelope, FiniteSetTheorems, TLAPS

Keys == {"result", "message", "details", "issues", "value", "extra"}

-----------------------------------------------------------------------------
(* Lemmas about the operators.                                             *)

\* A response is the object of the keys its choice does not leave out.
LEMMA ObjectGet ==
    ASSUME NEW c \in Choices
    PROVE  /\ DOMAIN Object(c) = {k \in Keys : c[k] # Absent}
           /\ \A k \in DOMAIN Object(c) : Object(c)[k] = c[k]
           /\ \A k \in Keys : Get(Object(c), k) = c[k]
<1>1. DOMAIN c = Keys
  BY DEF Choices, Keys
<1>2. DOMAIN Object(c) = {k \in Keys : c[k] # Absent}
  BY <1>1 DEF Object
<1>3. \A k \in DOMAIN Object(c) : Object(c)[k] = c[k]
  BY <1>1 DEF Object
<1>4. QED
  BY <1>2, <1>3 DEF Get

\* A response that parses has a known tag, every key its option declares
\* is accepted, and the parse keeps the declared keys the response has.
LEMMA ParseAccepted ==
    ASSUME NEW c \in Choices, Parse(Object(c)) # Invalid
    PROVE  /\ c.result \in Tags
           /\ "result" \in DOMAIN Object(c)
           /\ \A k \in DOMAIN Shape[c.result] :
                 Accepts(Shape[c.result][k], Get(Object(c), k))
           /\ Parse(Object(c)) =
                Restrict(Object(c), ({"result"} \cup DOMAIN Shape[c.result])
                                      \cap DOMAIN Object(c))
<1> DEFINE x == Object(c)
<1>1. IsObject(x) /\ "result" \in DOMAIN x /\ x["result"] \in Tags
  BY DEF Parse
<1>2. x["result"] = c.result
  BY <1>1, ObjectGet
<1>3. Parse(x) = ParseObject(c.result, x)
  BY <1>1, <1>2 DEF Parse
<1>4. \A k \in DOMAIN Shape[c.result] :
         Accepts(Shape[c.result][k], Get(x, k))
  BY <1>3 DEF ParseObject
<1>5. QED
  BY <1>1, <1>2, <1>3, <1>4 DEF ParseObject

\* A key whose schema is z.string() holds a string, so it is present.
LEMMA StringPresent ==
    ASSUME NEW c \in Choices, NEW k \in Keys,
           Accepts("string", Get(Object(c), k))
    PROVE  k \in DOMAIN Object(c) /\ c[k] \in Str
<1>1. Get(Object(c), k) = c[k]
  BY ObjectGet
<1>2. c[k] \in Str
  BY <1>1 DEF Accepts
<1>3. c[k] # Absent
  BY <1>2, AbstractValuesAssumption
<1>4. QED
  BY <1>2, <1>3, ObjectGet

\* Arrays of one element schema: an accepted `details` or `issues` array of
\* a response is one of the arrays the envelope allows.
LEMMA ArrayChoice ==
    ASSUME NEW e, NEW v \in {<< >>, <<e>>, <<Number>>}, ArrayOf(v, e)
    PROVE  v \in {<< >>, <<e>>, <<e, e>>}
<1>1. CASE v = <<Number>>
  <2>1. v[1] = e
    BY <1>1 DEF ArrayOf
  <2>2. QED
    BY <1>1, <2>1
<1>2. QED
  BY <1>1

-----------------------------------------------------------------------------
(* The options of the union.                                               *)

\* An error with only a message.
LEMMA SoundMessage ==
    ASSUME NEW c \in Choices, Parse(Object(c)) # Invalid,
           c.result \in {"timeout", "cancelled", "serverError", "unsatisfiable"}
    PROVE  Parse(Object(c)) \in Envelope
<1> DEFINE x == Object(c)
<1>1. Shape[c.result] = [message |-> "string"]
  BY DEF Shape, Tags, ErrorTags
<1>2. Accepts("string", Get(x, "message"))
  <2>1. "message" \in DOMAIN Shape[c.result] /\ Shape[c.result]["message"] = "string"
    BY <1>1
  <2>2. QED
    BY <2>1, ParseAccepted
<1>3. "message" \in DOMAIN x /\ c.message \in Str
  BY <1>2, StringPresent DEF Keys
<1>4. "result" \in DOMAIN x
  BY ParseAccepted
<1>5. Parse(x) = [k \in {"result", "message"} |-> x[k]]
  BY <1>1, <1>3, <1>4, ParseAccepted DEF Restrict
<1>6. Parse(x) = [result |-> c.result, message |-> c.message]
  BY <1>3, <1>4, <1>5, ObjectGet
<1>7. QED
  BY <1>3, <1>6 DEF Envelope

\* A request error, with or without its details.
LEMMA SoundRequestError ==
    ASSUME NEW c \in Choices, Parse(Object(c)) # Invalid,
           c.result = "requestError"
    PROVE  Parse(Object(c)) \in Envelope
<1> DEFINE x == Object(c)
<1>1. Shape[c.result] = [message |-> "string", details |-> "details?"]
  BY DEF Shape, Tags, ErrorTags
<1>2. /\ Accepts("string", Get(x, "message"))
      /\ Accepts("details?", Get(x, "details"))
  <2>1. /\ "message" \in DOMAIN Shape[c.result]
        /\ Shape[c.result]["message"] = "string"
        /\ "details" \in DOMAIN Shape[c.result]
        /\ Shape[c.result]["details"] = "details?"
    BY <1>1
  <2>2. QED
    BY <2>1, ParseAccepted
<1>3. "message" \in DOMAIN x /\ c.message \in Str
  BY <1>2, StringPresent DEF Keys
<1>4. "result" \in DOMAIN x
  BY ParseAccepted
<1>5. Parse(x) = [k \in {"result", "message", "details"} \cap DOMAIN x |-> x[k]]
  BY <1>1, <1>3, <1>4, ParseAccepted DEF Restrict
<1>6. CASE c.details = Absent
  <2>1. "details" \notin DOMAIN x
    BY <1>6, ObjectGet DEF Keys
  <2>2. Parse(x) = [result |-> c.result, message |-> c.message]
    BY <1>3, <1>4, <1>5, <2>1, ObjectGet
  <2>3. QED
    BY <1>3, <2>2 DEF Envelope
<1>7. CASE c.details # Absent
  <2>1. "details" \in DOMAIN x /\ Get(x, "details") = c.details
    BY <1>7, ObjectGet DEF Keys
  <2>2. ArrayOf(c.details, Detail)
    BY <1>2, <1>7, <2>1 DEF Accepts
  <2>3. c.details \in DetailArrays
    BY <1>7, <2>2, ArrayChoice DEF Choices, DetailArrays
  <2>4. Parse(x) = [result |-> c.result, message |-> c.message,
                    details |-> c.details]
    BY <1>3, <1>4, <1>5, <2>1, ObjectGet
  <2>5. QED
    BY <1>3, <2>3, <2>4 DEF Envelope
<1>8. QED
  BY <1>6, <1>7

\* An invalid problem, with its issues.
LEMMA SoundInvalidProblem ==
    ASSUME NEW c \in Choices, Parse(Object(c)) # Invalid,
           c.result = "invalidProblem"
    PROVE  Parse(Object(c)) \in Envelope
<1> DEFINE x == Object(c)
<1>1. Shape[c.result] = [message |-> "string", issues |-> "issues"]
  BY DEF Shape, Tags, ErrorTags
<1>2. /\ Accepts("string", Get(x, "message"))
      /\ Accepts("issues", Get(x, "issues"))
  <2>1. /\ "message" \in DOMAIN Shape[c.result]
        /\ Shape[c.result]["message"] = "string"
        /\ "issues" \in DOMAIN Shape[c.result]
        /\ Shape[c.result]["issues"] = "issues"
    BY <1>1
  <2>2. QED
    BY <2>1, ParseAccepted
<1>3. "message" \in DOMAIN x /\ c.message \in Str
  BY <1>2, StringPresent DEF Keys
<1>4. "result" \in DOMAIN x
  BY ParseAccepted
<1>5. ArrayOf(c.issues, Issue)
  BY <1>2, ObjectGet DEF Accepts, Keys
<1>6. c.issues # Absent
  BY <1>5 DEF ArrayOf, IsObject
<1>7. "issues" \in DOMAIN x
  BY <1>6, ObjectGet DEF Keys
<1>8. c.issues \in IssueArrays
  BY <1>5, <1>6, ArrayChoice DEF Choices, IssueArrays
<1>9. Parse(x) = [result |-> c.result, message |-> c.message,
                  issues |-> c.issues]
  <2>1. Parse(x) = [k \in {"result", "message", "issues"} |-> x[k]]
    BY <1>1, <1>3, <1>4, <1>7, ParseAccepted DEF Restrict
  <2>2. QED
    BY <1>3, <1>4, <1>7, <2>1, ObjectGet
<1>10. QED
  BY <1>3, <1>8, <1>9 DEF Envelope

\* A success or a status, with its value.
LEMMA SoundValue ==
    ASSUME NEW c \in Choices, Parse(Object(c)) # Invalid,
           c.result \in {"success", "status"}
    PROVE  Parse(Object(c)) \in Envelope
<1> DEFINE x == Object(c)
<1>1. Shape[c.result] = [value |-> "string"]
  BY DEF Shape, Tags, ErrorTags
<1>2. Accepts("string", Get(x, "value"))
  <2>1. "value" \in DOMAIN Shape[c.result] /\ Shape[c.result]["value"] = "string"
    BY <1>1
  <2>2. QED
    BY <2>1, ParseAccepted
<1>3. "value" \in DOMAIN x /\ c.value \in Str
  BY <1>2, StringPresent DEF Keys
<1>4. "result" \in DOMAIN x
  BY ParseAccepted
<1>5. Parse(x) = [k \in {"result", "value"} |-> x[k]]
  BY <1>1, <1>3, <1>4, ParseAccepted DEF Restrict
<1>6. Parse(x) = [result |-> c.result, value |-> c.value]
  BY <1>3, <1>4, <1>5, ObjectGet
<1>7. QED
  BY <1>3, <1>6 DEF Envelope

-----------------------------------------------------------------------------
(* Soundness.                                                              *)

\* Every response the client may be handed is one of the modelled ones.
InputOK == input \in Inputs

LEMMA ParseSoundOn ==
    ASSUME NEW x \in Inputs
    PROVE  Parse(x) # Invalid => Parse(x) \in Envelope
<1>1. CASE x = Number
  BY <1>1 DEF Parse, IsObject
<1>2. ASSUME NEW c \in Choices, x = Object(c), Parse(x) # Invalid
      PROVE  Parse(x) \in Envelope
  <2>1. c.result \in Tags
    BY <1>2, ParseAccepted
  <2>2. QED
    BY <1>2, <2>1, SoundMessage, SoundRequestError, SoundInvalidProblem,
       SoundValue DEF Tags, ErrorTags
<1>3. QED
  BY <1>1, <1>2 DEF Inputs

-----------------------------------------------------------------------------
(* The parse is the largest envelope the response holds.                  *)

\* The arrays an envelope allows are arrays of their element schema.
LEMMA ArraysAccepted ==
    /\ \A v \in DetailArrays : ArrayOf(v, Detail)
    /\ \A v \in IssueArrays : ArrayOf(v, Issue)
<1>1. \A v \in DetailArrays \cup IssueArrays : IsObject(v)
  BY ArraysAssumption DEF IsObject
<1>2. \A e : /\ DOMAIN << >> = 1..0
             /\ DOMAIN <<e>> = 1..1 /\ <<e>>[1] = e
             /\ DOMAIN <<e, e>> = 1..2 /\ <<e, e>>[1] = e /\ <<e, e>>[2] = e
  OBVIOUS
<1>3. QED
  BY <1>1, <1>2 DEF ArrayOf, DetailArrays, IssueArrays

\* An envelope has a known tag, only the keys of its option, and accepted
\* values under them; the only declared key it may lack is the optional
\* `details` of a request error.
LEMMA EnvelopeShape ==
    ASSUME NEW e \in Envelope
    PROVE  /\ e.result \in Tags
           /\ "result" \in DOMAIN e
           /\ DOMAIN e \subseteq {"result"} \cup DOMAIN Shape[e.result]
           /\ \A k \in DOMAIN Shape[e.result] :
                 k \in DOMAIN e => Accepts(Shape[e.result][k], e[k])
           /\ \A k \in DOMAIN Shape[e.result] \ DOMAIN e :
                 k = "details" /\ e.result = "requestError"
                 /\ Shape[e.result][k] = "details?"
<1>1. CASE e \in [result : {"timeout", "cancelled", "serverError",
                            "unsatisfiable"}, message : Str]
  <2>1. Shape[e.result] = [message |-> "string"]
    BY <1>1 DEF Shape, Tags, ErrorTags
  <2>2. QED
    BY <1>1, <2>1 DEF Accepts, Tags, ErrorTags
<1>2. CASE e \in [result : {"requestError"}, message : Str]
  <2>1. Shape[e.result] = [message |-> "string", details |-> "details?"]
    BY <1>2 DEF Shape, Tags, ErrorTags
  <2>2. QED
    BY <1>2, <2>1 DEF Accepts, Tags, ErrorTags
<1>3. CASE e \in [result : {"requestError"}, message : Str,
                  details : DetailArrays]
  <2>1. Shape[e.result] = [message |-> "string", details |-> "details?"]
    BY <1>3 DEF Shape, Tags, ErrorTags
  <2>2. ArrayOf(e.details, Detail)
    BY <1>3, ArraysAccepted
  <2>3. QED
    BY <1>3, <2>1, <2>2 DEF Accepts, Tags, ErrorTags
<1>4. CASE e \in [result : {"invalidProblem"}, message : Str,
                  issues : IssueArrays]
  <2>1. Shape[e.result] = [message |-> "string", issues |-> "issues"]
    BY <1>4 DEF Shape, Tags, ErrorTags
  <2>2. ArrayOf(e.issues, Issue)
    BY <1>4, ArraysAccepted
  <2>3. QED
    BY <1>4, <2>1, <2>2 DEF Accepts, Tags, ErrorTags
<1>5. CASE e \in [result : {"success", "status"}, value : Str]
  <2>1. Shape[e.result] = [value |-> "string"]
    BY <1>5 DEF Shape, Tags, ErrorTags
  <2>2. QED
    BY <1>5, <2>1 DEF Accepts, Tags, ErrorTags
<1>6. QED
  BY <1>1, <1>2, <1>3, <1>4, <1>5 DEF Envelope

\* The keys envelopes of a kind may have are those its option declares.
LEMMA EnvelopeKeysBound ==
    ASSUME NEW t \in Tags
    PROVE  EnvelopeKeys[t] \subseteq {"result"} \cup DOMAIN Shape[t]
<1> SUFFICES ASSUME NEW k \in EnvelopeKeys[t]
             PROVE  k \in {"result"} \cup DOMAIN Shape[t]
  OBVIOUS
<1>1. PICK e \in Envelope : e.result = t /\ k \in DOMAIN e
  BY DEF EnvelopeKeys
<1>2. QED
  BY <1>1, EnvelopeShape

\* A request error may carry `details`.
LEMMA DetailsKey == "details" \in EnvelopeKeys["requestError"]
<1>1. [result |-> "requestError", message |-> "text", details |-> << >>]
        \in Envelope
  BY DEF Envelope, Str, Tags, DetailArrays
<1>2. QED
  BY <1>1 DEF EnvelopeKeys, Tags, ErrorTags

\* A restriction of a response that is an envelope has the response's tag,
\* and its keys lie between the envelope keys the response has and the keys
\* the tag's option declares.
LEMMA HeldRestriction ==
    ASSUME NEW x, IsObject(x), NEW r \in Held(x)
    PROVE  /\ r \in Envelope
           /\ "result" \in DOMAIN x
           /\ r.result = x["result"]
           /\ DOMAIN r \subseteq DOMAIN x
           /\ \A k \in DOMAIN r : r[k] = x[k]
           /\ DOMAIN x \cap EnvelopeKeys[r.result] \subseteq DOMAIN r
           /\ DOMAIN r \subseteq {"result"} \cup DOMAIN Shape[r.result]
<1>1. PICK D \in SUBSET DOMAIN x :
         /\ r = Restrict(x, D)
         /\ r \in Envelope
         /\ DOMAIN x \cap EnvelopeKeys[r.result] \subseteq DOMAIN r
  BY DEF Held
<1>2. DOMAIN r = D /\ \A k \in D : r[k] = x[k]
  BY <1>1 DEF Restrict
<1>3. "result" \in DOMAIN r /\ r.result \in Tags
  BY <1>1, EnvelopeShape
<1>4. QED
  BY <1>1, <1>2, <1>3, EnvelopeShape

\* A response that parses holds exactly one envelope: its parse.
LEMMA HeldParse ==
    ASSUME NEW c \in Choices, Parse(Object(c)) # Invalid
    PROVE  Held(Object(c)) = {Parse(Object(c))}
<1> DEFINE x == Object(c)
           t == c.result
           P == Parse(x)
           D == ({"result"} \cup DOMAIN Shape[t]) \cap DOMAIN x
<1>1. /\ IsObject(x)
      /\ t \in Tags
      /\ P = Restrict(x, D)
      /\ P \in Envelope
  BY ParseAccepted, ParseSoundOn DEF Parse, Inputs
<1>2. DOMAIN P = D /\ P.result = t
  BY <1>1, ParseAccepted, ObjectGet DEF Restrict
<1>3. DOMAIN P \subseteq EnvelopeKeys[t]
  BY <1>1, <1>2 DEF EnvelopeKeys
<1>4. P \in Held(x)
  <2>1. DOMAIN x \cap EnvelopeKeys[P.result] \subseteq DOMAIN P
    BY <1>1, <1>2, EnvelopeKeysBound
  <2>2. QED
    BY <1>1, <2>1 DEF Held
<1>5. ASSUME NEW r \in Held(x) PROVE r = P
  <2>1. /\ r \in Envelope
        /\ r.result = t
        /\ DOMAIN r \subseteq DOMAIN x
        /\ \A k \in DOMAIN r : r[k] = x[k]
        /\ DOMAIN x \cap EnvelopeKeys[t] \subseteq DOMAIN r
        /\ DOMAIN r \subseteq {"result"} \cup DOMAIN Shape[t]
    <3>1. /\ r \in Envelope
          /\ "result" \in DOMAIN x
          /\ r.result = x["result"]
          /\ DOMAIN r \subseteq DOMAIN x
          /\ \A k \in DOMAIN r : r[k] = x[k]
          /\ DOMAIN x \cap EnvelopeKeys[r.result] \subseteq DOMAIN r
          /\ DOMAIN r \subseteq {"result"} \cup DOMAIN Shape[r.result]
      BY <1>1, HeldRestriction
    <3>2. x["result"] = t
      BY <3>1, ObjectGet
    <3>3. QED
      BY <3>1, <3>2
  <2>2. DOMAIN r = D
    BY <1>2, <1>3, <2>1
  <2>3. r = [k \in D |-> x[k]]
    BY <2>1, <2>2 DEF Envelope
  <2>4. QED
    BY <1>1, <2>3 DEF Restrict
<1>6. QED
  BY <1>4, <1>5

\* A response that does not parse holds no envelope: an envelope it held
\* would have a known tag and accepted values for every declared key.
LEMMA HeldEmpty ==
    ASSUME NEW c \in Choices, Parse(Object(c)) = Invalid
    PROVE  Held(Object(c)) = {}
<1> DEFINE x == Object(c)
<1> SUFFICES ASSUME NEW r \in Held(x) PROVE FALSE
  OBVIOUS
<1> DEFINE t == r.result
<1>1. IsObject(x)
  BY DEF Held
<1>2. /\ r \in Envelope
      /\ "result" \in DOMAIN x
      /\ t = x["result"]
      /\ \A k \in DOMAIN r : k \in DOMAIN x /\ r[k] = x[k]
      /\ DOMAIN x \cap EnvelopeKeys[t] \subseteq DOMAIN r
  BY <1>1, HeldRestriction
<1>3. t \in Tags
  BY <1>2, EnvelopeShape
<1>4. \A k \in DOMAIN Shape[t] : Accepts(Shape[t][k], Get(x, k))
  <2> SUFFICES ASSUME NEW k \in DOMAIN Shape[t]
               PROVE  Accepts(Shape[t][k], Get(x, k))
    OBVIOUS
  <2>1. CASE k \in DOMAIN r
    <3>1. Get(x, k) = r[k]
      BY <1>2, <2>1 DEF Get
    <3>2. QED
      BY <1>2, <2>1, <3>1, EnvelopeShape
  <2>2. CASE k \notin DOMAIN r
    <3>1. k = "details" /\ t = "requestError" /\ Shape[t][k] = "details?"
      BY <1>2, <2>2, EnvelopeShape
    <3>2. k \notin DOMAIN x
      BY <1>2, <2>2, <3>1, DetailsKey
    <3>3. QED
      BY <3>1, <3>2 DEF Get, Accepts
  <2>3. QED
    BY <2>1, <2>2
<1>5. Parse(x) = Restrict(x, ({"result"} \cup DOMAIN Shape[t]) \cap DOMAIN x)
  BY <1>1, <1>2, <1>3, <1>4 DEF Parse, ParseObject
<1>6. QED
  BY <1>5, InvalidAssumption

\* The response fields are the six keys of a choice: finitely many.
LEMMA KeysFinite == IsFiniteSet(Keys)
<1>1. Keys = ((((({} \cup {"result"}) \cup {"message"}) \cup {"details"})
                 \cup {"issues"}) \cup {"value"}) \cup {"extra"}
  BY DEF Keys
<1>2. QED
  BY <1>1, FS_EmptySet, FS_AddElement

\* The largest envelope of a set that holds only one is that envelope.
LEMMA ChooseLargest ==
    ASSUME NEW c \in Choices, NEW P \in Envelope,
           DOMAIN P \subseteq DOMAIN Object(c)
    PROVE  (CHOOSE r \in {P} :
              \A q \in {P} : Cardinality(DOMAIN q) <= Cardinality(DOMAIN r))
           = P
<1>1. DOMAIN Object(c) \subseteq Keys
  BY ObjectGet
<1>2. Cardinality(DOMAIN P) \in Nat
  BY <1>1, KeysFinite, FS_Subset, FS_CardinalityType
<1>3. QED
  BY <1>2

\* Parsing agrees with the schema on every response the client may be
\* handed.
LEMMA MatchesOn ==
    ASSUME NEW x \in Inputs
    PROVE  Parse(x) =
             IF Held(x) = {} THEN Invalid
             ELSE CHOOSE r \in Held(x) :
                    \A q \in Held(x) : Cardinality(DOMAIN q) <= Cardinality(DOMAIN r)
<1>1. CASE x = Number
  BY <1>1 DEF Parse, Held, IsObject
<1>2. ASSUME NEW c \in Choices, x = Object(c), Parse(x) = Invalid
      PROVE  Held(x) = {}
  BY <1>2, HeldEmpty
<1>3. ASSUME NEW c \in Choices, x = Object(c), Parse(x) # Invalid
      PROVE  /\ Held(x) = {Parse(x)}
             /\ (CHOOSE r \in {Parse(x)} :
                   \A q \in {Parse(x)} :
                      Cardinality(DOMAIN q) <= Cardinality(DOMAIN r))
                = Parse(x)
  <2>1. Held(x) = {Parse(x)}
    BY <1>3, HeldParse
  <2>2. Parse(x) \in Envelope /\ DOMAIN Parse(x) \subseteq DOMAIN x
    BY <1>3, <2>1, HeldRestriction DEF Held
  <2>3. QED
    BY <1>3, <2>1, <2>2, ChooseLargest
<1>4. QED
  BY <1>1, <1>2, <1>3 DEF Inputs

\* z.discriminatedUnion('result', ...).parse accepts exactly the responses
\* that hold an envelope with no other key of its kind left out, and gives
\* back the largest such envelope; any other response, an unknown tag among
\* them, is rejected as a protocol violation.
THEOREM ParseAlwaysMatchesSchema == Spec => []ParseMatchesSchema
<1>1. Init => InputOK
  BY DEF Init, InputOK
<1>2. InputOK /\ [Next]_vars => InputOK'
  BY DEF InputOK, Next, Receive, vars
<1>3. InputOK => ParseMatchesSchema
  BY MatchesOn DEF InputOK, ParseMatchesSchema
<1>4. QED
  BY <1>1, <1>2, <1>3, PTL DEF Spec

=============================================================================
