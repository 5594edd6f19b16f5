--------------------------- MODULE SwarmFilesProofs ---------------------------
(***************************************************************************)
(* Theorems about SwarmFiles.  First, for every document: what the parser  *)
(* accepts it turns into something sound, and what is sound is written so  *)
(* that the parser accepts it and finds it again (references, agents,      *)
(* objects, states).  Then, that every event and resolution keeps a state  *)
(* sound.  The invariant, and that files are as good as memory, follow.    *)
(***************************************************************************)
EXTENDS SwarmFiles, TLAPS

-----------------------------------------------------------------------------
(* Values                                                                  *)

LEMMA TypesDiffer ==
  /\ Null[1] = "null" /\ True[1] = "boolean" /\ Null # True
  /\ \A x : Str(x)[1] = "string" /\ Str(x)[2] = x /\ Str(x) # Null /\ Str(x) # True
  /\ \A x : Num(x)[1] = "number" /\ Num(x)[2] = x
  /\ \A x : Obj(x)[1] = "object" /\ Obj(x)[2] = x /\ Obj(x) # Null
  /\ \A x : Arr(x)[1] = "array" /\ Arr(x)[2] = x
<1>1. Null[1] = "null" /\ True[1] = "boolean" BY DEF Null, True
<1>2. \A x : Str(x)[1] = "string" /\ Str(x)[2] = x BY DEF Str
<1>3. \A x : Num(x)[1] = "number" /\ Num(x)[2] = x BY DEF Num
<1>4. \A x : Obj(x)[1] = "object" /\ Obj(x)[2] = x BY DEF Obj
<1>5. \A x : Arr(x)[1] = "array" /\ Arr(x)[2] = x BY DEF Arr
<1> QED BY <1>1, <1>2, <1>3, <1>4, <1>5

LEMMA FloatStable == \A n : Float(Float(n)) = Float(n)
<1> SUFFICES ASSUME NEW n PROVE Float(Float(n)) = Float(n) OBVIOUS
<1>1. CASE n \in Nat /\ n > Exact /\ n % 2 = 1
  <2>1. Float(n) = n - 1 \/ Float(n) = n + 1 BY <1>1 DEF Float
  <2>2. (n - 1) % 2 = 0 /\ (n + 1) % 2 = 0 BY <1>1
  <2> QED BY <2>1, <2>2 DEF Float
<1>2. CASE ~(n \in Nat /\ n > Exact /\ n % 2 = 1)
  <2>1. Float(n) = n BY <1>2 DEF Float
  <2> QED BY <2>1
<1> QED BY <1>1, <1>2

LEMMA DecodedStable == \A v : Decoded(Decoded(v)) = Decoded(v)
<1> SUFFICES ASSUME NEW v PROVE Decoded(Decoded(v)) = Decoded(v) OBVIOUS
<1>1. CASE v[1] = "number"
  <2>1. Decoded(v) = Num(Float(v[2])) BY <1>1 DEF Decoded
  <2> QED BY <2>1, FloatStable, TypesDiffer DEF Decoded
<1>2. CASE v[1] # "number" BY <1>2 DEF Decoded
<1> QED BY <1>1, <1>2

LEMMA DecodedMapStable == \A m : SoundMap(DecodedMap(m))
BY DecodedStable DEF SoundMap, DecodedMap

LEMMA StringMapSound == \A m, k : SoundMap(StringMap(m, k))
<1>1. SoundMap(NoKeys) BY DEF SoundMap, DecodedMap, NoKeys
<1> QED BY <1>1, DecodedMapStable DEF StringMap

LEMMA MergeSound ==
  ASSUME NEW a, NEW b, SoundMap(a), SoundMap(b)
  PROVE  SoundMap(Merge(a, b))
<1>1. \A k \in DOMAIN a : a[k] = Decoded(a[k]) BY DEF SoundMap, DecodedMap
<1>2. \A k \in DOMAIN b : b[k] = Decoded(b[k]) BY DEF SoundMap, DecodedMap
<1>3. \A k \in DOMAIN Merge(a, b) : Merge(a, b)[k] = Decoded(Merge(a, b)[k]) BY <1>1, <1>2 DEF Merge
<1>4. Merge(a, b) = [k \in DOMAIN Merge(a, b) |-> Merge(a, b)[k]] BY DEF Merge
<1> QED BY <1>3, <1>4 DEF SoundMap, DecodedMap

\* A map that is sound and empty is the one that stands for a key that is absent.
LEMMA EmptyMap == ASSUME NEW c, SoundMap(c), DOMAIN c = {} PROVE c = NoKeys
BY DEF SoundMap, DecodedMap, NoKeys

-----------------------------------------------------------------------------
(* References                                                              *)

LEMMA RefOfSound == ASSUME NEW m, GoodRef(m) PROVE SoundRef(RefOf(m))
<1> DEFINE r == RefOf(m)
<1>1. r = WithDigest(r, r.digest) BY DEF RefOf, WithDigest
<1>2. r.ref # "" /\ GoodScheme(r.ref) /\ r.scheme = SchemeOf(r.ref) BY DEF RefOf, GoodRef
<1>3. r.kind \in {"data", "code"} \/ (r.kind = "" /\ r.scheme \notin ContentAddressable)
  BY DEF RefOf, GoodRef, GoodKind, String, StringOf, Type
<1>4. r.scheme = "ssh" => r.host # "" BY DEF RefOf, GoodRef
<1>5. r.scheme = "tmux" => StringOf(r.client) \in Clients
  BY DEF RefOf, GoodRef, GoodExecution, String, StringOf, Decoded, Clients
<1>6. r.client = Decoded(r.client) BY DecodedStable DEF RefOf
<1>7. r.attested \in BOOLEAN /\ r.optsPresent \in BOOLEAN BY DEF RefOf
<1>8. r.opts = Null \/ (r.optsPresent /\ r.opts = Obj(DecodedMap(r.opts[2])))
  <2>1. CASE Type(m, "opts") = "object"
    <3>1. r.optsPresent BY <2>1, TypesDiffer DEF RefOf, Type, At
    <3>2. r.opts = Obj(DecodedMap(Map(m, "opts"))) BY <2>1 DEF RefOf
    <3> QED BY <3>1, <3>2, DecodedMapStable, TypesDiffer DEF SoundMap
  <2>2. CASE Type(m, "opts") # "object" BY <2>2 DEF RefOf
  <2> QED BY <2>1, <2>2
<1> QED BY <1>1, <1>2, <1>3, <1>4, <1>5, <1>6, <1>7, <1>8 DEF SoundRef

LEMMA RefWritten ==
  ASSUME NEW r, SoundRef(r)
  PROVE  /\ At(RefToMap(r), "ref") = Str(r.ref)
         /\ At(RefToMap(r), "kind") = IF r.kind # "" THEN Str(r.kind) ELSE Null
         /\ At(RefToMap(r), "digest") = IF r.digest # "" THEN Str(r.digest) ELSE Null
         /\ At(RefToMap(r), "host") = IF r.host # "" THEN Str(r.host) ELSE Null
         /\ At(RefToMap(r), "image") = IF r.image # "" THEN Str(r.image) ELSE Null
         /\ At(RefToMap(r), "attested") = IF r.attested THEN True ELSE Null
         /\ At(RefToMap(r), "client") = r.client
         /\ At(RefToMap(r), "opts") = r.opts
         /\ "opts" \in DOMAIN RefToMap(r) <=> r.optsPresent
         /\ "policy" \notin DOMAIN RefToMap(r)
<1>1. DOMAIN RefToMap(r) = RefKeys(r) BY DEF RefToMap
<1>2. /\ "ref" \in RefKeys(r) /\ "policy" \notin RefKeys(r)
      /\ "kind" \in RefKeys(r) <=> r.kind # ""
      /\ "digest" \in RefKeys(r) <=> r.digest # ""
      /\ "host" \in RefKeys(r) <=> r.host # ""
      /\ "image" \in RefKeys(r) <=> r.image # ""
      /\ "attested" \in RefKeys(r) <=> r.attested
      /\ "client" \in RefKeys(r) <=> r.client # Null
      /\ "opts" \in RefKeys(r) <=> r.optsPresent
  BY DEF RefKeys
<1>3. r.opts # Null => r.optsPresent BY DEF SoundRef
<1>4. /\ RefToMap(r)["ref"] = Str(r.ref)
      /\ "kind" \in RefKeys(r) => RefToMap(r)["kind"] = Str(r.kind)
      /\ "digest" \in RefKeys(r) => RefToMap(r)["digest"] = Str(r.digest)
      /\ "host" \in RefKeys(r) => RefToMap(r)["host"] = Str(r.host)
      /\ "image" \in RefKeys(r) => RefToMap(r)["image"] = Str(r.image)
      /\ "attested" \in RefKeys(r) => RefToMap(r)["attested"] = True
      /\ "client" \in RefKeys(r) => RefToMap(r)["client"] = r.client
      /\ "opts" \in RefKeys(r) => RefToMap(r)["opts"] = r.opts
  BY <1>2 DEF RefToMap
<1> QED BY <1>1, <1>2, <1>3, <1>4 DEF At

\* A string that is written only if it is not empty is read as itself.
LEMMA StringRead ==
  ASSUME NEW v, NEW x, v = IF x # "" THEN Str(x) ELSE Null
  PROVE  StringOf(v) = x
<1>1. CASE x # "" BY <1>1, TypesDiffer DEF StringOf
<1>2. CASE x = ""
  <2>1. v[1] = "null" BY <1>2, TypesDiffer
  <2> QED BY <1>2, <2>1 DEF StringOf
<1> QED BY <1>1, <1>2

\* Every reference the parser can return is written as a reference it accepts, and
\* which it reads as the same one (ref.go, encode.go).
THEOREM RefRoundTrip ==
  ASSUME NEW r, SoundRef(r)
  PROVE  GoodRef(RefToMap(r)) /\ RefOf(RefToMap(r)) = r
<1> DEFINE m == RefToMap(r)
<1>0. r.attested \in BOOLEAN /\ r.optsPresent \in BOOLEAN BY DEF SoundRef
<1>1. /\ String(m, "ref") = r.ref /\ String(m, "kind") = r.kind /\ String(m, "digest") = r.digest
      /\ String(m, "host") = r.host /\ String(m, "image") = r.image
  <2>1. StringOf(Str(r.ref)) = r.ref BY TypesDiffer DEF StringOf
  <2>2. String(m, "ref") = r.ref BY <2>1, RefWritten DEF String
  <2>3. String(m, "kind") = r.kind BY StringRead, RefWritten DEF String
  <2>4. String(m, "digest") = r.digest BY StringRead, RefWritten DEF String
  <2>5. String(m, "host") = r.host BY StringRead, RefWritten DEF String
  <2>6. String(m, "image") = r.image BY StringRead, RefWritten DEF String
  <2> QED BY <2>2, <2>3, <2>4, <2>5, <2>6
<1>2. (At(m, "attested") = True) = r.attested
  <2>1. CASE r.attested = TRUE
    <3>1. At(m, "attested") = True BY <2>1, RefWritten
    <3> QED BY <3>1, <2>1
  <2>2. CASE r.attested = FALSE
    <3>1. At(m, "attested") = Null BY <2>2, RefWritten
    <3> QED BY <3>1, <2>2, TypesDiffer
  <2> QED BY <1>0, <2>1, <2>2
<1>3. Decoded(At(m, "client")) = r.client BY RefWritten DEF SoundRef
<1>4. (IF Type(m, "opts") = "object" THEN Obj(DecodedMap(Map(m, "opts"))) ELSE Null) = r.opts
  <2>1. At(m, "opts") = r.opts BY RefWritten
  <2>2. CASE r.opts = Null BY <2>1, <2>2, TypesDiffer DEF Type
  <2>3. CASE r.opts = Obj(DecodedMap(r.opts[2]))
    <3>1. r.opts[1] = "object" BY <2>3, TypesDiffer
    <3> QED BY <2>1, <2>3, <3>1 DEF Type, Map
  <2> QED BY <2>2, <2>3 DEF SoundRef
<1>5. ("opts" \in DOMAIN m) = r.optsPresent
  <2>1. "opts" \in DOMAIN m <=> r.optsPresent BY RefWritten
  <2>2. CASE r.optsPresent = TRUE BY <2>1, <2>2
  <2>3. CASE r.optsPresent = FALSE
    <3>1. "opts" \notin DOMAIN m BY <2>1, <2>3
    <3>2. ("opts" \in DOMAIN m) = FALSE BY <3>1
    <3> QED BY <3>2, <2>3
  <2> QED BY <1>0, <2>2, <2>3
<1>6. SchemeOf(String(m, "ref")) = r.scheme BY <1>1 DEF SoundRef
<1>7. RefOf(m) = r
  <2>1. RefOf(m) = WithDigest(r, r.digest)
    BY <1>1, <1>2, <1>3, <1>4, <1>5, <1>6 DEF RefOf, WithDigest
  <2> QED BY <2>1 DEF SoundRef
<1>8. GoodKind(m, r.scheme)
  BY <1>1, RefWritten, TypesDiffer DEF GoodKind, Type, SoundRef
<1>9. GoodExecution(m, r.scheme)
  <2>1. Type(m, "image") = "null" \/ String(m, "image") # ""
    <3>1. CASE r.image = ""
      <4>1. At(m, "image") = Null BY <3>1, RefWritten
      <4> QED BY <4>1, TypesDiffer DEF Type
    <3>2. CASE r.image # "" BY <1>1, <3>2
    <3> QED BY <3>1, <3>2
  <2>2. r.scheme = "tmux" => String(m, "client") \in Clients
    <3>1. At(m, "client") = r.client BY RefWritten
    <3> QED BY <3>1 DEF String, SoundRef
  <2>3. Type(m, "opts") \in {"null", "object"}
    <3>1. At(m, "opts") = r.opts BY RefWritten
    <3>2. CASE r.opts = Null BY <3>1, <3>2, TypesDiffer DEF Type
    <3>3. CASE r.opts = Obj(DecodedMap(r.opts[2]))
      <4>1. r.opts[1] = "object" BY <3>3, TypesDiffer
      <4> QED BY <3>1, <4>1 DEF Type
    <3> QED BY <3>2, <3>3 DEF SoundRef
  <2> QED BY <2>1, <2>2, <2>3 DEF GoodExecution
<1>10. Type(m, "attested") \in {"null", "boolean"}
  <2>1. At(m, "attested") \in {True, Null} BY RefWritten
  <2> QED BY <2>1, TypesDiffer DEF Type
<1> QED BY <1>1, <1>6, <1>7, <1>8, <1>9, <1>10 DEF GoodRef, SoundRef

-----------------------------------------------------------------------------
(* Agents and objects                                                      *)

LEMMA ConfigRead ==
  ASSUME NEW m, NEW k, NEW c, SoundMap(c), At(m, k) = IF DOMAIN c # {} THEN Obj(c) ELSE Null
  PROVE  StringMap(m, k) = c
<1>1. CASE DOMAIN c # {}
  <2>1. At(m, k) = Obj(c) BY <1>1
  <2>2. Type(m, k) = "object" /\ Map(m, k) = c BY <2>1, TypesDiffer DEF Type, Map
  <2> QED BY <2>2 DEF StringMap, SoundMap
<1>2. CASE DOMAIN c = {}
  <2>1. At(m, k) = Null BY <1>2
  <2>2. Type(m, k) = "null" BY <2>1, TypesDiffer DEF Type
  <2>3. StringMap(m, k) = NoKeys BY <2>2 DEF StringMap
  <2> QED BY <2>3, <1>2, EmptyMap
<1> QED BY <1>1, <1>2

LEMMA AgentOfSound == ASSUME NEW m, GoodAgent(m) PROVE SoundAgent(AgentOf(m))
<1> DEFINE a == AgentOf(m)
<1>1. a = AgentWith(a, a.body, a.model, a.backend, a.config) BY DEF AgentOf, AgentWith
<1>2. a.name # "" BY DEF AgentOf, GoodAgent
<1>3. SoundRef(a.body) /\ a.body.kind = "data"
  <2>1. GoodRef(Map(m, "body")) /\ String(Map(m, "body"), "kind") = "data"
    BY DEF GoodAgent, GoodTypedRef
  <2>2. a.body = RefOf(Map(m, "body")) BY DEF AgentOf
  <2> QED BY <2>1, <2>2, RefOfSound DEF RefOf
<1>4. SoundRef(a.backend) /\ a.backend.scheme # "swarmidx"
  <2>1. GoodRef(Map(m, "backend")) /\ SchemeOf(String(Map(m, "backend"), "ref")) # "swarmidx"
    BY DEF GoodAgent, GoodBackend
  <2>2. a.backend = RefOf(Map(m, "backend")) BY DEF AgentOf
  <2> QED BY <2>1, <2>2, RefOfSound DEF RefOf
<1>5. /\ a.model = [slot |-> a.model.slot, ref |-> a.model.ref] /\ SoundRef(a.model.ref)
      /\ \/ a.model.slot = "policy" /\ a.model.ref.kind = "data"
         \/ a.model.slot = "service" /\ a.model.ref.scheme # "swarmidx"
  <2>1. a.model = ModelOf(m) BY DEF AgentOf
  <2>2. CASE HasPolicy(m)
    <3> DEFINE p == Map(Map(m, "model"), "policy")
    <3>1. GoodRef(p) /\ String(p, "kind") = "data"
      BY <2>2 DEF GoodAgent, GoodModel, GoodTypedRef
    <3>2. a.model = [slot |-> "policy", ref |-> RefOf(p)] BY <2>1, <2>2 DEF ModelOf
    <3>3. RefOf(p).kind = "data" BY <3>1 DEF RefOf
    <3> QED BY <3>1, <3>2, <3>3, RefOfSound
  <2>3. CASE ~HasPolicy(m)
    <3> DEFINE p == Map(m, "model")
    <3>1. GoodRef(p) /\ SchemeOf(String(p, "ref")) # "swarmidx"
      BY <2>3 DEF GoodAgent, GoodModel
    <3>2. a.model = [slot |-> "service", ref |-> RefOf(p)] BY <2>1, <2>3 DEF ModelOf
    <3>3. RefOf(p).scheme # "swarmidx" BY <3>1 DEF RefOf
    <3> QED BY <3>1, <3>2, <3>3, RefOfSound
  <2> QED BY <2>2, <2>3
<1>6. SoundMap(a.overrides) /\ SoundMap(a.config) BY StringMapSound DEF AgentOf
<1> QED BY <1>1, <1>2, <1>3, <1>4, <1>5, <1>6 DEF SoundAgent

LEMMA AgentWritten ==
  ASSUME NEW a, SoundAgent(a)
  PROVE  /\ At(AgentToMap(a), "name") = Str(a.name)
         /\ At(AgentToMap(a), "body") = Obj(RefToMap(a.body))
         /\ At(AgentToMap(a), "model") = Obj(ModelToMap(a.model))
         /\ At(AgentToMap(a), "backend") = Obj(RefToMap(a.backend))
         /\ At(AgentToMap(a), "overrides") = IF DOMAIN a.overrides # {} THEN Obj(a.overrides) ELSE Null
         /\ At(AgentToMap(a), "config") = IF DOMAIN a.config # {} THEN Obj(a.config) ELSE Null
<1> DEFINE D == DOMAIN AgentToMap(a)
<1>1. /\ {"name", "body", "model", "backend"} \subseteq D
      /\ "overrides" \in D <=> DOMAIN a.overrides # {}
      /\ "config" \in D <=> DOMAIN a.config # {}
  BY DEF AgentToMap
<1>2. /\ AgentToMap(a)["name"] = Str(a.name)
      /\ AgentToMap(a)["body"] = Obj(RefToMap(a.body))
      /\ AgentToMap(a)["model"] = Obj(ModelToMap(a.model))
      /\ AgentToMap(a)["backend"] = Obj(RefToMap(a.backend))
      /\ "overrides" \in D => AgentToMap(a)["overrides"] = Obj(a.overrides)
      /\ "config" \in D => AgentToMap(a)["config"] = Obj(a.config)
  BY DEF AgentToMap
<1> QED BY <1>1, <1>2 DEF At

LEMMA TypedRefRead ==
  ASSUME NEW m, NEW slot, NEW r, SoundRef(r), At(m, slot) = Obj(RefToMap(r))
  PROVE  /\ Type(m, slot) = "object" /\ GoodRef(Map(m, slot)) /\ RefOf(Map(m, slot)) = r
         /\ String(Map(m, slot), "kind") = r.kind
         /\ SchemeOf(String(Map(m, slot), "ref")) = r.scheme
<1>1. Type(m, slot) = "object" /\ Map(m, slot) = RefToMap(r) BY TypesDiffer DEF Type, Map
<1>2. GoodRef(Map(m, slot)) /\ RefOf(Map(m, slot)) = r BY <1>1, RefRoundTrip
<1>3. RefOf(Map(m, slot)).kind = String(Map(m, slot), "kind")
      /\ RefOf(Map(m, slot)).scheme = SchemeOf(String(Map(m, slot), "ref"))
  BY DEF RefOf
<1> QED BY <1>1, <1>2, <1>3

LEMMA ModelRead ==
  ASSUME NEW m, NEW x, x = [slot |-> x.slot, ref |-> x.ref], SoundRef(x.ref),
         \/ x.slot = "policy" /\ x.ref.kind = "data"
         \/ x.slot = "service" /\ x.ref.scheme # "swarmidx",
         At(m, "model") = Obj(ModelToMap(x))
  PROVE  GoodModel(m) /\ ModelOf(m) = x
<1>1. Type(m, "model") = "object" /\ Map(m, "model") = ModelToMap(x) BY TypesDiffer DEF Type, Map
<1>2. CASE x.slot = "policy" /\ x.ref.kind = "data"
  <2> DEFINE n == Map(m, "model")
  <2>1. n = [policy |-> Obj(RefToMap(x.ref))] BY <1>1, <1>2 DEF ModelToMap
  <2>2. At(n, "policy") = Obj(RefToMap(x.ref)) BY <2>1 DEF At
  <2> HIDE DEF n
  <2>3. /\ Type(n, "policy") = "object" /\ GoodRef(Map(n, "policy")) /\ RefOf(Map(n, "policy")) = x.ref
        /\ String(Map(n, "policy"), "kind") = x.ref.kind
    BY <2>2, TypedRefRead
  <2>4. HasPolicy(m) BY <2>3 DEF HasPolicy, n
  <2>5. GoodTypedRef(n, "policy", "data") BY <1>2, <2>3 DEF GoodTypedRef
  <2>6. GoodModel(m) BY <1>1, <2>4, <2>5 DEF GoodModel, n
  <2>7. ModelOf(m) = [slot |-> "policy", ref |-> x.ref] BY <2>3, <2>4 DEF ModelOf, n
  <2> QED BY <2>6, <2>7, <1>2
<1>3. CASE x.slot = "service" /\ x.ref.scheme # "swarmidx"
  <2>1. Map(m, "model") = RefToMap(x.ref) BY <1>1, <1>3 DEF ModelToMap
  <2>2. At(Map(m, "model"), "policy") = Null BY <2>1, RefWritten DEF At
  <2>3. ~HasPolicy(m) BY <2>2, TypesDiffer DEF HasPolicy, Type
  <2>4. At(m, "model") = Obj(RefToMap(x.ref)) BY <1>3 DEF ModelToMap
  <2>5. /\ GoodRef(Map(m, "model")) /\ RefOf(Map(m, "model")) = x.ref
        /\ SchemeOf(String(Map(m, "model"), "ref")) = x.ref.scheme
    BY <2>4, TypedRefRead
  <2>6. GoodModel(m) BY <1>1, <1>3, <2>3, <2>5 DEF GoodModel
  <2>7. ModelOf(m) = [slot |-> "service", ref |-> x.ref] BY <2>3, <2>5 DEF ModelOf
  <2> QED BY <2>6, <2>7, <1>3
<1> QED BY <1>2, <1>3

\* Every agent a state can hold is written as one the parser accepts and reads as the
\* same agent, whichever way its model is named (encode.go, state.go).
THEOREM AgentRoundTrip ==
  ASSUME NEW a, SoundAgent(a)
  PROVE  GoodAgent(AgentToMap(a)) /\ AgentOf(AgentToMap(a)) = a
<1> DEFINE m == AgentToMap(a)
<1>1. String(m, "name") = a.name
  <2>1. StringOf(Str(a.name)) = a.name BY TypesDiffer DEF StringOf
  <2> QED BY <2>1, AgentWritten DEF String
<1>2. /\ GoodTypedRef(m, "body", "data") /\ RefOf(Map(m, "body")) = a.body
  <2>1. At(m, "body") = Obj(RefToMap(a.body)) BY AgentWritten
  <2>2. SoundRef(a.body) /\ a.body.kind = "data" BY DEF SoundAgent
  <2> HIDE DEF m
  <2>3. /\ Type(m, "body") = "object" /\ GoodRef(Map(m, "body")) /\ RefOf(Map(m, "body")) = a.body
        /\ String(Map(m, "body"), "kind") = a.body.kind
    BY <2>1, <2>2, TypedRefRead
  <2> QED BY <2>2, <2>3 DEF GoodTypedRef
<1>3. GoodBackend(m) /\ RefOf(Map(m, "backend")) = a.backend
  <2>1. At(m, "backend") = Obj(RefToMap(a.backend)) BY AgentWritten
  <2>2. SoundRef(a.backend) /\ a.backend.scheme # "swarmidx" BY DEF SoundAgent
  <2> HIDE DEF m
  <2>3. /\ Type(m, "backend") = "object" /\ GoodRef(Map(m, "backend")) /\ RefOf(Map(m, "backend")) = a.backend
        /\ SchemeOf(String(Map(m, "backend"), "ref")) = a.backend.scheme
    BY <2>1, <2>2, TypedRefRead
  <2> QED BY <2>2, <2>3 DEF GoodBackend
<1>4. GoodModel(m) /\ ModelOf(m) = a.model
  <2>1. At(m, "model") = Obj(ModelToMap(a.model)) BY AgentWritten
  <2>2. /\ a.model = [slot |-> a.model.slot, ref |-> a.model.ref] /\ SoundRef(a.model.ref)
        /\ \/ a.model.slot = "policy" /\ a.model.ref.kind = "data"
           \/ a.model.slot = "service" /\ a.model.ref.scheme # "swarmidx"
    BY DEF SoundAgent
  <2> HIDE DEF m
  <2> QED BY <2>1, <2>2, ModelRead
<1>5. StringMap(m, "overrides") = a.overrides
  <2>1. At(m, "overrides") = IF DOMAIN a.overrides # {} THEN Obj(a.overrides) ELSE Null BY AgentWritten
  <2> QED BY <2>1, ConfigRead DEF SoundAgent
<1>6. StringMap(m, "config") = a.config
  <2>1. At(m, "config") = IF DOMAIN a.config # {} THEN Obj(a.config) ELSE Null BY AgentWritten
  <2> QED BY <2>1, ConfigRead DEF SoundAgent
<1>7. AgentOf(m) = AgentWith(a, a.body, a.model, a.backend, a.config)
  BY <1>1, <1>2, <1>3, <1>4, <1>5, <1>6 DEF AgentOf, AgentWith
<1> QED BY <1>1, <1>2, <1>3, <1>4, <1>7 DEF GoodAgent, SoundAgent

LEMMA ObjectOfSound == ASSUME NEW m, GoodObject(m) PROVE SoundObject(ObjectOf(m))
<1> DEFINE o == ObjectOf(m)
<1>1. o = ObjectWith(o, o.handler, o.config) BY DEF ObjectOf, ObjectWith
<1>2. o.name # "" BY DEF ObjectOf, GoodObject
<1>3. SoundRef(o.handler) /\ o.handler.kind = "code"
  <2>1. GoodRef(Map(m, "handler")) /\ String(Map(m, "handler"), "kind") = "code"
    BY DEF GoodObject, GoodTypedRef
  <2>2. o.handler = RefOf(Map(m, "handler")) BY DEF ObjectOf
  <2> QED BY <2>1, <2>2, RefOfSound DEF RefOf
<1>4. SoundMap(o.config) BY StringMapSound DEF ObjectOf
<1> QED BY <1>1, <1>2, <1>3, <1>4 DEF SoundObject

\* The same of objects (encode.go, state.go).
THEOREM ObjectRoundTrip ==
  ASSUME NEW o, SoundObject(o)
  PROVE  GoodObject(ObjectToMap(o)) /\ ObjectOf(ObjectToMap(o)) = o
<1> DEFINE m == ObjectToMap(o)
<1>1. /\ At(m, "name") = Str(o.name) /\ At(m, "handler") = Obj(RefToMap(o.handler))
      /\ At(m, "config") = IF DOMAIN o.config # {} THEN Obj(o.config) ELSE Null
  <2>1. /\ {"name", "handler"} \subseteq DOMAIN m
        /\ "config" \in DOMAIN m <=> DOMAIN o.config # {}
    BY DEF ObjectToMap
  <2>2. /\ m["name"] = Str(o.name) /\ m["handler"] = Obj(RefToMap(o.handler))
        /\ "config" \in DOMAIN m => m["config"] = Obj(o.config)
    BY DEF ObjectToMap
  <2> QED BY <2>1, <2>2 DEF At
<1> HIDE DEF m
<1>2. String(m, "name") = o.name
  <2>1. StringOf(Str(o.name)) = o.name BY TypesDiffer DEF StringOf
  <2> QED BY <1>1, <2>1 DEF String
<1>3. GoodTypedRef(m, "handler", "code") /\ RefOf(Map(m, "handler")) = o.handler
  <2>1. SoundRef(o.handler) /\ o.handler.kind = "code" BY DEF SoundObject
  <2>2. /\ Type(m, "handler") = "object" /\ GoodRef(Map(m, "handler")) /\ RefOf(Map(m, "handler")) = o.handler
        /\ String(Map(m, "handler"), "kind") = o.handler.kind
    BY <1>1, <2>1, TypedRefRead
  <2> QED BY <2>1, <2>2 DEF GoodTypedRef
<1>4. StringMap(m, "config") = o.config BY <1>1, ConfigRead DEF SoundObject
<1>5. ObjectOf(m) = ObjectWith(o, o.handler, o.config) BY <1>2, <1>3, <1>4 DEF ObjectOf, ObjectWith
<1> QED BY <1>2, <1>3, <1>5 DEF GoodObject, SoundObject, m

-----------------------------------------------------------------------------
(* States                                                                  *)

LEMMA AgentNotObject == \A x : ~(SoundAgent(x) /\ SoundObject(x))
<1> SUFFICES ASSUME NEW x, SoundAgent(x), SoundObject(x) PROVE FALSE OBVIOUS
<1>1. "body" \in DOMAIN AgentWith(x, x.body, x.model, x.backend, x.config) BY DEF AgentWith
<1>2. "body" \notin DOMAIN ObjectWith(x, x.handler, x.config) BY DEF ObjectWith
<1> QED BY <1>1, <1>2 DEF SoundAgent, SoundObject

LEMMA StateOfSound == ASSUME NEW m, GoodState(m) PROVE SoundState(StateOf(m))
<1> DEFINE s == StateOf(m)
<1>1. s = State(s.name, s.phase, s.agents, s.objects, s.topology, s.options) BY DEF StateOf, State
<1>2. s.name # "" /\ s.phase \in {"desired", "observed"} BY DEF StateOf, State, GoodState
<1>3. s.agents = {AgentOf(v[2]) : v \in List(m, "agents")} BY DEF StateOf, State
<1>4. s.objects = {ObjectOf(v[2]) : v \in List(m, "objects")} BY DEF StateOf, State
<1>5. \A v \in List(m, "agents") : SoundAgent(AgentOf(v[2])) BY AgentOfSound DEF GoodState
<1>6. \A v \in List(m, "objects") : SoundObject(ObjectOf(v[2])) BY ObjectOfSound DEF GoodState
<1>7. UniqueNames(s) /\ ValidEdges(s) BY DEF GoodState
<1>8. SoundMap(s.options) BY StringMapSound DEF StateOf, State
<1> HIDE DEF s
<1>9. \A a \in s.agents : SoundAgent(a) BY <1>3, <1>5
<1>10. \A o \in s.objects : SoundObject(o) BY <1>4, <1>6
<1> QED BY <1>1, <1>2, <1>7, <1>8, <1>9, <1>10 DEF SoundState, s

LEMMA ListRead ==
  ASSUME NEW m, NEW k, NEW x, At(m, k) = Arr(x) \/ (x = {} /\ At(m, k) = Null)
  PROVE  List(m, k) = x
<1>1. CASE At(m, k) = Arr(x)
  <2>1. At(m, k)[1] = "array" /\ At(m, k)[2] = x BY <1>1, TypesDiffer
  <2> QED BY <2>1 DEF List, Type
<1>2. CASE x = {} /\ At(m, k) = Null
  <2>1. At(m, k)[1] = "null" BY <1>2, TypesDiffer
  <2> QED BY <1>2, <2>1 DEF List, Type
<1> QED BY <1>1, <1>2

LEMMA StateWritten ==
  ASSUME NEW s, SoundState(s)
  PROVE  /\ At(StateToMap(s), "v") = Num(1) /\ At(StateToMap(s), "kind") = Str("swarm.state")
         /\ At(StateToMap(s), "name") = Str(s.name) /\ At(StateToMap(s), "phase") = Str(s.phase)
         /\ At(StateToMap(s), "agents") = Arr({Obj(AgentToMap(a)) : a \in s.agents})
         /\ At(StateToMap(s), "objects") =
              IF s.objects # {} THEN Arr({Obj(ObjectToMap(o)) : o \in s.objects}) ELSE Null
         /\ At(StateToMap(s), "topology") =
              IF s.topology # {} THEN Arr({EdgeToArray(e) : e \in s.topology}) ELSE Null
         /\ At(StateToMap(s), "options") = IF DOMAIN s.options # {} THEN Obj(s.options) ELSE Null
         /\ "topology" \in DOMAIN StateToMap(s) <=> s.topology # {}
<1> DEFINE m == StateToMap(s)
<1>1. /\ {"v", "kind", "name", "phase", "agents"} \subseteq DOMAIN m
      /\ "objects" \in DOMAIN m <=> s.objects # {}
      /\ "topology" \in DOMAIN m <=> s.topology # {}
      /\ "options" \in DOMAIN m <=> DOMAIN s.options # {}
  BY DEF StateToMap
<1>2. /\ m["v"] = Num(1) /\ m["kind"] = Str("swarm.state")
      /\ m["name"] = Str(s.name) /\ m["phase"] = Str(s.phase)
      /\ m["agents"] = Arr({Obj(AgentToMap(a)) : a \in s.agents})
  BY DEF StateToMap
<1>3. "objects" \in DOMAIN m => m["objects"] = Arr({Obj(ObjectToMap(o)) : o \in s.objects})
  BY DEF StateToMap
<1>4. "topology" \in DOMAIN m => m["topology"] = Arr({EdgeToArray(e) : e \in s.topology})
  BY DEF StateToMap
<1>5. "options" \in DOMAIN m => m["options"] = Obj(s.options)
  BY DEF StateToMap
<1> HIDE DEF m
<1>6. /\ At(m, "v") = Num(1) /\ At(m, "kind") = Str("swarm.state")
      /\ At(m, "name") = Str(s.name) /\ At(m, "phase") = Str(s.phase)
      /\ At(m, "agents") = Arr({Obj(AgentToMap(a)) : a \in s.agents})
  BY <1>1, <1>2 DEF At
<1>7. At(m, "objects") = IF s.objects # {} THEN Arr({Obj(ObjectToMap(o)) : o \in s.objects}) ELSE Null
  BY <1>1, <1>3 DEF At
<1>8. At(m, "topology") = IF s.topology # {} THEN Arr({EdgeToArray(e) : e \in s.topology}) ELSE Null
  BY <1>1, <1>4 DEF At
<1>9. At(m, "options") = IF DOMAIN s.options # {} THEN Obj(s.options) ELSE Null
  BY <1>1, <1>5 DEF At
<1> QED BY <1>1, <1>6, <1>7, <1>8, <1>9 DEF m

\* Every state a command can have in memory is written as a document that the parser
\* accepts and reads as that state: what is written can be checked, resolved, vendored or
\* folded again (encode.go, state.go).
THEOREM StateRoundTrip ==
  ASSUME NEW s, SoundState(s)
  PROVE  GoodState(StateToMap(s)) /\ StateOf(StateToMap(s)) = s
<1> DEFINE m == StateToMap(s)
           agents == {Obj(AgentToMap(a)) : a \in s.agents}
           objects == {Obj(ObjectToMap(o)) : o \in s.objects}
           edges == {EdgeToArray(e) : e \in s.topology}
<1>1. /\ At(m, "v") = Num(1) /\ At(m, "kind") = Str("swarm.state")
      /\ At(m, "name") = Str(s.name) /\ At(m, "phase") = Str(s.phase)
      /\ At(m, "agents") = Arr(agents)
      /\ At(m, "objects") = IF s.objects # {} THEN Arr(objects) ELSE Null
      /\ At(m, "topology") = IF s.topology # {} THEN Arr(edges) ELSE Null
      /\ At(m, "options") = IF DOMAIN s.options # {} THEN Obj(s.options) ELSE Null
      /\ "topology" \in DOMAIN m <=> s.topology # {}
  BY StateWritten
<1>a. s.objects = {} => objects = {} OBVIOUS
<1>b. s.topology = {} => edges = {} OBVIOUS
<1>c. /\ s = State(s.name, s.phase, s.agents, s.objects, s.topology, s.options)
      /\ s.name # "" /\ s.phase \in {"desired", "observed"}
      /\ \A a \in s.agents : SoundAgent(a)
      /\ \A o \in s.objects : SoundObject(o)
      /\ UniqueNames(s) /\ ValidEdges(s)
      /\ SoundMap(s.options)
  BY DEF SoundState
<1>d. \A v \in agents : \E a \in s.agents : v = Obj(AgentToMap(a)) OBVIOUS
<1>e. \A v \in objects : \E o \in s.objects : v = Obj(ObjectToMap(o)) OBVIOUS
<1>f. \A v \in edges : \E e \in s.topology : v = EdgeToArray(e) OBVIOUS
<1>g. \A a \in s.agents : Obj(AgentToMap(a)) \in agents OBVIOUS
<1>h. \A o \in s.objects : Obj(ObjectToMap(o)) \in objects OBVIOUS
<1>i. \A e \in s.topology : EdgeToArray(e) \in edges OBVIOUS
<1> HIDE DEF m, agents, objects, edges
<1>2. List(m, "agents") = agents BY <1>1, ListRead
<1>3. List(m, "objects") = objects
  <2>1. At(m, "objects") = Arr(objects) \/ (objects = {} /\ At(m, "objects") = Null) BY <1>1, <1>a
  <2> QED BY <2>1, ListRead
<1>4. List(m, "topology") = edges
  <2>1. At(m, "topology") = Arr(edges) \/ (edges = {} /\ At(m, "topology") = Null) BY <1>1, <1>b
  <2> QED BY <2>1, ListRead
<1>5. StringMap(m, "options") = s.options BY <1>1, <1>c, ConfigRead
<1>6. String(m, "name") = s.name /\ String(m, "phase") = s.phase /\ String(m, "kind") = "swarm.state"
  <2>1. \A x : StringOf(Str(x)) = x BY TypesDiffer DEF StringOf
  <2> QED BY <1>1, <2>1 DEF String
<1>7. \A a \in s.agents : GoodAgent(AgentToMap(a)) /\ AgentOf(AgentToMap(a)) = a BY <1>c, AgentRoundTrip
<1>8. \A o \in s.objects : GoodObject(ObjectToMap(o)) /\ ObjectOf(ObjectToMap(o)) = o BY <1>c, ObjectRoundTrip
<1>9. \A e \in s.topology : GoodEdge(EdgeToArray(e)) /\ EdgeOf(EdgeToArray(e)) = e
  <2> SUFFICES ASSUME NEW e \in s.topology PROVE GoodEdge(EdgeToArray(e)) /\ EdgeOf(EdgeToArray(e)) = e
    OBVIOUS
  <2>1. e \in NamesIn(s) \X NamesIn(s) BY <1>c DEF ValidEdges
  <2>2. e = <<e[1], e[2]>> BY <2>1
  <2> DEFINE ends == <<Str(e[1]), Str(e[2])>>
  <2>3. EdgeToArray(e)[1] = "array" /\ EdgeToArray(e)[2] = ends BY TypesDiffer DEF EdgeToArray
  <2>4. Len(ends) = 2 /\ ends[1] = Str(e[1]) /\ ends[2] = Str(e[2]) OBVIOUS
  <2> HIDE DEF ends
  <2>5. ends[1][1] = "string" /\ ends[2][1] = "string" /\ ends[1][2] = e[1] /\ ends[2][2] = e[2]
    BY <2>4, TypesDiffer
  <2> QED BY <2>2, <2>3, <2>4, <2>5 DEF GoodEdge, EdgeOf
<1>10. {AgentOf(v[2]) : v \in agents} = s.agents
  <2>1. \A v \in agents : AgentOf(v[2]) \in s.agents BY <1>7, <1>d, TypesDiffer
  <2>2. \A a \in s.agents : \E v \in agents : AgentOf(v[2]) = a BY <1>7, <1>g, TypesDiffer
  <2> QED BY <2>1, <2>2
<1>11. {ObjectOf(v[2]) : v \in objects} = s.objects
  <2>1. \A v \in objects : ObjectOf(v[2]) \in s.objects BY <1>8, <1>e, TypesDiffer
  <2>2. \A o \in s.objects : \E v \in objects : ObjectOf(v[2]) = o BY <1>8, <1>h, TypesDiffer
  <2> QED BY <2>1, <2>2
<1>12. {EdgeOf(v) : v \in edges} = s.topology
  <2>1. \A v \in edges : EdgeOf(v) \in s.topology BY <1>9, <1>f
  <2>2. \A e \in s.topology : \E v \in edges : EdgeOf(v) = e BY <1>9, <1>i
  <2> QED BY <2>1, <2>2
<1>13. StateOf(m) = s
  <2>1. StateOf(m) = State(s.name, s.phase, s.agents, s.objects, s.topology, s.options)
    BY <1>2, <1>3, <1>4, <1>5, <1>6, <1>10, <1>11, <1>12 DEF StateOf
  <2> QED BY <2>1, <1>c
<1>14. GoodHeader(m, "swarm.state")
  <2>1. Type(m, "v") = "number" /\ Map(m, "v") = 1 BY <1>1, TypesDiffer DEF Type, Map
  <2>2. Float(1) = 1
    <3>1. Exact \in Nat \ {0} BY DocumentAssumption
    <3>2. Exact >= 1 BY <3>1
    <3> QED BY <3>1, <3>2 DEF Float
  <2>3. Integer(m, "v") = 1 BY <2>1, <2>2 DEF Integer
  <2> QED BY <1>6, <2>1, <2>3 DEF GoodHeader
<1>15. Type(m, "agents") = "array" BY <1>1, TypesDiffer DEF Type
<1>16. \A v \in agents : v[1] = "object" /\ GoodAgent(v[2]) BY <1>7, <1>d, TypesDiffer
<1>17. \A v \in objects : v[1] = "object" /\ GoodObject(v[2]) BY <1>8, <1>e, TypesDiffer
<1>18. "topology" \in DOMAIN m => Type(m, "topology") = "array" BY <1>1, TypesDiffer DEF Type
<1>19. \A v \in edges : GoodEdge(v) BY <1>9, <1>f
<1>20. GoodState(m)
  BY <1>2, <1>3, <1>4, <1>6, <1>c, <1>13, <1>14, <1>15, <1>16, <1>17, <1>18, <1>19 DEF GoodState
<1> QED BY <1>13, <1>20 DEF m

-----------------------------------------------------------------------------
(* Events and resolution                                                   *)

Unique(nodes) == \A x, y \in nodes : x.name = y.name => x = y
NamesOf(nodes) == {x.name : x \in nodes}

LEMMA SoundParts ==
  ASSUME NEW s, SoundState(s)
  PROVE  /\ \A a \in s.agents : SoundAgent(a)
         /\ \A o \in s.objects : SoundObject(o)
         /\ Unique(s.agents \cup s.objects)
         /\ NamesIn(s) = NamesOf(s.agents \cup s.objects)
         /\ s.topology \subseteq NamesOf(s.agents \cup s.objects) \X NamesOf(s.agents \cup s.objects)
         /\ SoundMap(s.options)
BY DEF SoundState, UniqueNames, ValidEdges, NamesIn, Nodes, Unique, NamesOf

LEMMA SoundWhole ==
  ASSUME NEW s, SoundState(s), NEW agents, NEW objects, NEW topology, NEW options,
         \A a \in agents : SoundAgent(a), \A o \in objects : SoundObject(o),
         Unique(agents \cup objects),
         topology \subseteq NamesOf(agents \cup objects) \X NamesOf(agents \cup objects),
         SoundMap(options)
  PROVE  SoundState(State(s.name, s.phase, agents, objects, topology, options))
<1> DEFINE t == State(s.name, s.phase, agents, objects, topology, options)
<1>1. /\ t.name = s.name /\ t.phase = s.phase /\ t.agents = agents /\ t.objects = objects
      /\ t.topology = topology /\ t.options = options
  BY DEF State
<1>2. t = State(t.name, t.phase, t.agents, t.objects, t.topology, t.options) BY <1>1
<1> HIDE DEF t
<1>3. s.name # "" /\ s.phase \in {"desired", "observed"} BY DEF SoundState
<1>4. UniqueNames(t) BY <1>1 DEF UniqueNames, Nodes, Unique
<1>5. ValidEdges(t) BY <1>1 DEF ValidEdges, NamesIn, Nodes, NamesOf
<1> QED BY <1>1, <1>2, <1>3, <1>4, <1>5 DEF SoundState, t

\* Nodes are added, and edges stay.
LEMMA AddedSound ==
  ASSUME NEW s, SoundState(s), NEW op \in {"add_agent", "add_object"}, NEW p, GoodPayload(op, p),
         NEW t \in Added(s, op, p)
  PROVE  SoundState(t)
<1> DEFINE nodes == s.agents \cup s.objects
<1>1. String(p, "name") \notin NamesIn(s) BY DEF Added
<1>2. CASE op = "add_agent"
  <2> DEFINE a == AgentOf(p)
  <2>1. t = State(s.name, s.phase, s.agents \cup {a}, s.objects, s.topology, s.options)
    BY <1>1, <1>2 DEF Added, WithNodes
  <2>2. SoundAgent(a)
    <3>1. GoodAgent(p) BY <1>2 DEF GoodPayload
    <3> QED BY <3>1, AgentOfSound
  <2>3. a.name = String(p, "name") BY DEF AgentOf
  <2> HIDE DEF a
  <2>4. (s.agents \cup {a}) \cup s.objects = nodes \cup {a} OBVIOUS
  <2>5. Unique(nodes \cup {a}) BY <1>1, <2>3, SoundParts DEF Unique, NamesOf
  <2>6. NamesOf(nodes) \subseteq NamesOf(nodes \cup {a}) BY DEF NamesOf
  <2>7. s.topology \subseteq NamesOf(nodes \cup {a}) \X NamesOf(nodes \cup {a}) BY <2>6, SoundParts
  <2>8. \A x \in s.agents \cup {a} : SoundAgent(x) BY <2>2, SoundParts
  <2> QED BY <2>1, <2>4, <2>5, <2>7, <2>8, SoundParts, SoundWhole
<1>3. CASE op = "add_object"
  <2> DEFINE o == ObjectOf(p)
  <2>1. t = State(s.name, s.phase, s.agents, s.objects \cup {o}, s.topology, s.options)
    BY <1>1, <1>3 DEF Added, WithNodes
  <2>2. SoundObject(o)
    <3>1. GoodObject(p) BY <1>3 DEF GoodPayload
    <3> QED BY <3>1, ObjectOfSound
  <2>3. o.name = String(p, "name") BY DEF ObjectOf
  <2> HIDE DEF o
  <2>4. s.agents \cup (s.objects \cup {o}) = nodes \cup {o} OBVIOUS
  <2>5. Unique(nodes \cup {o}) BY <1>1, <2>3, SoundParts DEF Unique, NamesOf
  <2>6. NamesOf(nodes) \subseteq NamesOf(nodes \cup {o}) BY DEF NamesOf
  <2>7. s.topology \subseteq NamesOf(nodes \cup {o}) \X NamesOf(nodes \cup {o}) BY <2>6, SoundParts
  <2>8. \A x \in s.objects \cup {o} : SoundObject(x) BY <2>2, SoundParts
  <2> QED BY <2>1, <2>4, <2>5, <2>7, <2>8, SoundParts, SoundWhole
<1> QED BY <1>2, <1>3

\* A node goes and takes its edges with it.
LEMMA WithoutSound ==
  ASSUME NEW s, SoundState(s), NEW n, NEW agents, NEW objects,
         agents \subseteq s.agents, objects \subseteq s.objects,
         (s.agents \cup s.objects) \ {n} \subseteq agents \cup objects
  PROVE  SoundState(Without(s, agents, objects, n.name))
<1> DEFINE edges == {e \in s.topology : e[1] # n.name /\ e[2] # n.name}
<1>1. Without(s, agents, objects, n.name) = State(s.name, s.phase, agents, objects, edges, s.options)
  BY DEF Without, WithTopology, WithNodes, State
<1>2. \A x \in NamesOf(s.agents \cup s.objects) : x # n.name => x \in NamesOf(agents \cup objects)
  BY DEF NamesOf
<1>3. edges \subseteq NamesOf(agents \cup objects) \X NamesOf(agents \cup objects)
  <2> SUFFICES ASSUME NEW e \in edges PROVE e \in NamesOf(agents \cup objects) \X NamesOf(agents \cup objects)
    OBVIOUS
  <2>1. e \in NamesOf(s.agents \cup s.objects) \X NamesOf(s.agents \cup s.objects) BY SoundParts
  <2>2. e[1] # n.name /\ e[2] # n.name OBVIOUS
  <2>3. e = <<e[1], e[2]>> /\ e[1] \in NamesOf(s.agents \cup s.objects) /\ e[2] \in NamesOf(s.agents \cup s.objects)
    BY <2>1
  <2> HIDE DEF edges
  <2> QED BY <1>2, <2>2, <2>3
<1>4. Unique(agents \cup objects) BY SoundParts DEF Unique
<1>5. (\A a \in agents : SoundAgent(a)) /\ (\A o \in objects : SoundObject(o)) /\ SoundMap(s.options)
  BY SoundParts
<1> HIDE DEF edges
<1> QED BY <1>1, <1>3, <1>4, <1>5, SoundWhole

LEMMA RemovedSound ==
  ASSUME NEW s, SoundState(s), NEW op, NEW name, NEW t \in Removed(s, op, name)
  PROVE  SoundState(t)
<1>1. CASE op = "remove_agent"
  <2>1. PICK a \in s.agents : a.name = name /\ t = Without(s, s.agents \ {a}, s.objects, name)
    BY <1>1 DEF Removed
  <2>2. SoundState(Without(s, s.agents \ {a}, s.objects, a.name)) BY WithoutSound
  <2> QED BY <2>1, <2>2
<1>2. CASE op # "remove_agent"
  <2>1. PICK o \in s.objects : o.name = name /\ t = Without(s, s.agents, s.objects \ {o}, name)
    BY <1>2 DEF Removed
  <2>2. SoundState(Without(s, s.agents, s.objects \ {o}, o.name)) BY WithoutSound
  <2> QED BY <2>1, <2>2
<1> QED BY <1>1, <1>2

LEMMA LinkedSound ==
  ASSUME NEW s, SoundState(s), NEW op, NEW edges, NEW t \in Linked(s, op, edges)
  PROVE  SoundState(t)
<1> DEFINE names == NamesOf(s.agents \cup s.objects)
<1>1. \A topology : topology \subseteq names \X names => SoundState(WithTopology(s, topology))
  <2> SUFFICES ASSUME NEW topology, topology \subseteq names \X names
               PROVE  SoundState(WithTopology(s, topology))
    OBVIOUS
  <2> QED BY SoundParts, SoundWhole DEF WithTopology
<1>2. CASE op = "remove_topology_edges"
  <2>1. t = WithTopology(s, s.topology \ edges) BY <1>2 DEF Linked
  <2> QED BY <1>1, <2>1, SoundParts
<1>3. CASE op # "remove_topology_edges"
  <2>1. t = WithTopology(s, s.topology \cup edges) /\ edges \subseteq NamesIn(s) \X NamesIn(s)
    BY <1>3 DEF Linked
  <2> QED BY <1>1, <2>1, SoundParts
<1> QED BY <1>2, <1>3

\* A node is replaced by one of the same name.
LEMMA WithAgentSound ==
  ASSUME NEW s, SoundState(s), NEW a \in s.agents, NEW b, SoundAgent(b), b.name = a.name
  PROVE  SoundState(WithAgent(s, a, b))
<1> DEFINE agents == (s.agents \ {a}) \cup {b}
<1>1. a \notin s.objects BY SoundParts, AgentNotObject
<1>2. Unique(agents \cup s.objects)
  <2>1. \A x \in (s.agents \ {a}) \cup s.objects : x.name # b.name BY <1>1, SoundParts DEF Unique
  <2> QED BY <2>1, SoundParts DEF Unique
<1>3. NamesOf(agents \cup s.objects) = NamesOf(s.agents \cup s.objects)
  <2>1. \A x \in agents \cup s.objects : \E y \in s.agents \cup s.objects : y.name = x.name OBVIOUS
  <2>2. \A x \in s.agents \cup s.objects : \E y \in agents \cup s.objects : y.name = x.name OBVIOUS
  <2> HIDE DEF agents
  <2> QED BY <2>1, <2>2 DEF NamesOf
<1>4. \A x \in agents : SoundAgent(x) BY SoundParts
<1>5. WithAgent(s, a, b) = State(s.name, s.phase, agents, s.objects, s.topology, s.options)
  BY DEF WithAgent, WithNodes
<1> HIDE DEF agents
<1> QED BY <1>2, <1>3, <1>4, <1>5, SoundParts, SoundWhole

LEMMA WithObjectSound ==
  ASSUME NEW s, SoundState(s), NEW o \in s.objects, NEW b, SoundObject(b), b.name = o.name
  PROVE  SoundState(WithObject(s, o, b))
<1> DEFINE objects == (s.objects \ {o}) \cup {b}
<1>1. o \notin s.agents BY SoundParts, AgentNotObject
<1>2. Unique(s.agents \cup objects)
  <2>1. \A x \in s.agents \cup (s.objects \ {o}) : x.name # b.name BY <1>1, SoundParts DEF Unique
  <2> QED BY <2>1, SoundParts DEF Unique
<1>3. NamesOf(s.agents \cup objects) = NamesOf(s.agents \cup s.objects)
  <2>1. \A x \in s.agents \cup objects : \E y \in s.agents \cup s.objects : y.name = x.name OBVIOUS
  <2>2. \A x \in s.agents \cup s.objects : \E y \in s.agents \cup objects : y.name = x.name OBVIOUS
  <2> HIDE DEF objects
  <2> QED BY <2>1, <2>2 DEF NamesOf
<1>4. \A x \in objects : SoundObject(x) BY SoundParts
<1>5. WithObject(s, o, b) = State(s.name, s.phase, s.agents, objects, s.topology, s.options)
  BY DEF WithObject, WithNodes
<1> HIDE DEF objects
<1> QED BY <1>2, <1>3, <1>4, <1>5, SoundParts, SoundWhole

LEMMA ConfiguredSound ==
  ASSUME NEW s, SoundState(s), NEW target, NEW config, SoundMap(config),
         NEW t \in Configured(s, target, config)
  PROVE  SoundState(t)
<1>1. CASE \E a \in s.agents :
             t = WithAgent(s, a, AgentWith(a, a.body, a.model, a.backend, Merge(a.config, config)))
  <2>1. PICK a \in s.agents :
          t = WithAgent(s, a, AgentWith(a, a.body, a.model, a.backend, Merge(a.config, config)))
    BY <1>1
  <2> DEFINE b == AgentWith(a, a.body, a.model, a.backend, Merge(a.config, config))
  <2>2. /\ b.name = a.name /\ b.body = a.body /\ b.model = a.model /\ b.backend = a.backend
        /\ b.overrides = a.overrides /\ b.config = Merge(a.config, config)
        /\ b = AgentWith(b, b.body, b.model, b.backend, b.config)
    BY DEF AgentWith
  <2>3. SoundAgent(a) BY SoundParts
  <2>4. SoundMap(Merge(a.config, config)) BY <2>3, MergeSound DEF SoundAgent
  <2> HIDE DEF b
  <2>5. SoundAgent(b) BY <2>2, <2>3, <2>4 DEF SoundAgent
  <2> QED BY <2>1, <2>2, <2>5, WithAgentSound DEF b
<1>2. CASE \E o \in s.objects : t = WithObject(s, o, ObjectWith(o, o.handler, Merge(o.config, config)))
  <2>1. PICK o \in s.objects : t = WithObject(s, o, ObjectWith(o, o.handler, Merge(o.config, config)))
    BY <1>2
  <2> DEFINE b == ObjectWith(o, o.handler, Merge(o.config, config))
  <2>2. /\ b.name = o.name /\ b.handler = o.handler /\ b.config = Merge(o.config, config)
        /\ b = ObjectWith(b, b.handler, b.config)
    BY DEF ObjectWith
  <2>3. SoundObject(o) BY SoundParts
  <2>4. SoundMap(Merge(o.config, config)) BY <2>3, MergeSound DEF SoundObject
  <2> HIDE DEF b
  <2>5. SoundObject(b) BY <2>2, <2>3, <2>4 DEF SoundObject
  <2> QED BY <2>1, <2>2, <2>5, WithObjectSound DEF b
<1> QED BY <1>1, <1>2 DEF Configured, Named

LEMMA DigestSound ==
  ASSUME NEW r, SoundRef(r), NEW digest
  PROVE  /\ SoundRef(WithDigest(r, digest)) /\ WithDigest(r, digest).kind = r.kind
         /\ WithDigest(r, digest).scheme = r.scheme /\ WithDigest(r, digest).digest = digest
<1> DEFINE n == WithDigest(r, digest)
<1>1. /\ n.ref = r.ref /\ n.scheme = r.scheme /\ n.digest = digest /\ n.kind = r.kind
      /\ n.attested = r.attested /\ n.host = r.host /\ n.image = r.image /\ n.client = r.client
      /\ n.opts = r.opts /\ n.optsPresent = r.optsPresent
  BY DEF WithDigest
<1>2. n = WithDigest(n, n.digest) BY <1>1 DEF WithDigest
<1> HIDE DEF n
<1>3. SoundRef(n) BY <1>1, <1>2 DEF SoundRef
<1> QED BY <1>1, <1>3 DEF n

\* An agent whose references have other digests.
LEMMA RefsReplaced ==
  ASSUME NEW a, SoundAgent(a), NEW body, NEW policy, NEW backend,
         SoundRef(body), body.kind = a.body.kind,
         SoundRef(policy), policy.kind = a.model.ref.kind, policy.scheme = a.model.ref.scheme,
         SoundRef(backend), backend.scheme = a.backend.scheme
  PROVE  LET b == AgentWith(a, body, [slot |-> a.model.slot, ref |-> policy], backend, a.config)
         IN SoundAgent(b) /\ b.name = a.name
<1> DEFINE model == [slot |-> a.model.slot, ref |-> policy]
           b == AgentWith(a, body, model, backend, a.config)
<1>1. /\ b.name = a.name /\ b.body = body /\ b.model = model /\ b.backend = backend
      /\ b.overrides = a.overrides /\ b.config = a.config
      /\ b = AgentWith(b, b.body, b.model, b.backend, b.config)
  BY DEF AgentWith
<1>2. model.slot = a.model.slot /\ model.ref = policy /\ model = [slot |-> model.slot, ref |-> model.ref]
  OBVIOUS
<1> HIDE DEF model, b
<1>3. SoundAgent(b) BY <1>1, <1>2 DEF SoundAgent
<1> QED BY <1>1, <1>3 DEF b, model

LEMMA BumpedSound ==
  ASSUME NEW s, SoundState(s), NEW target, NEW field, NEW from, NEW to,
         NEW t \in Bumped(s, target, field, from, to)
  PROVE  SoundState(t)
<1>1. CASE \E a \in s.agents : t = WithAgent(s, a, Swapped(a, field, to))
  <2>1. PICK a \in s.agents : t = WithAgent(s, a, Swapped(a, field, to)) BY <1>1
  <2>2. SoundAgent(a) BY SoundParts
  <2>3. SoundRef(a.body) /\ SoundRef(a.model.ref) /\ SoundRef(a.backend) BY <2>2 DEF SoundAgent
  <2> DEFINE swap(f, r) == IF f = field THEN WithDigest(r, to) ELSE r
  <2>4. Swapped(a, field, to) =
          AgentWith(a, swap("body", a.body), [slot |-> a.model.slot, ref |-> swap("model", a.model.ref)],
                    swap("backend", a.backend), a.config)
    BY DEF Swapped
  <2>5. \A f, r : SoundRef(r) =>
          SoundRef(swap(f, r)) /\ swap(f, r).kind = r.kind /\ swap(f, r).scheme = r.scheme
    BY DigestSound
  <2> HIDE DEF swap
  <2>6. SoundAgent(Swapped(a, field, to)) /\ Swapped(a, field, to).name = a.name
    BY <2>2, <2>3, <2>4, <2>5, RefsReplaced
  <2> QED BY <2>1, <2>6, WithAgentSound
<1>2. CASE \E o \in s.objects : t = WithObject(s, o, ObjectWith(o, WithDigest(o.handler, to), o.config))
  <2>1. PICK o \in s.objects : t = WithObject(s, o, ObjectWith(o, WithDigest(o.handler, to), o.config))
    BY <1>2
  <2>2. SoundObject(o) BY SoundParts
  <2> DEFINE b == ObjectWith(o, WithDigest(o.handler, to), o.config)
  <2>3. /\ b.name = o.name /\ b.handler = WithDigest(o.handler, to) /\ b.config = o.config
        /\ b = ObjectWith(b, b.handler, b.config)
    BY DEF ObjectWith
  <2> HIDE DEF b
  <2>4. SoundRef(o.handler) /\ o.handler.kind = "code" /\ o.name # "" /\ SoundMap(o.config)
    BY <2>2 DEF SoundObject
  <2>5. SoundRef(b.handler) /\ b.handler.kind = "code"
    <3>1. SoundRef(WithDigest(o.handler, to)) /\ WithDigest(o.handler, to).kind = "code"
      BY <2>4, DigestSound
    <3> QED BY <2>3, <3>1
  <2>6. SoundObject(b) BY <2>3, <2>4, <2>5 DEF SoundObject
  <2> QED BY <2>1, <2>3, <2>6, WithObjectSound DEF b
<1> QED BY <1>1, <1>2 DEF Bumped, Named

\* Every event that validatePayload accepts keeps a state sound, when it is not refused.
LEMMA ResultsSound ==
  ASSUME NEW s, SoundState(s), NEW e, GoodPayload(e.op, e.payload), e.op # "scale_agent_group",
         NEW t \in Results(s, e)
  PROVE  SoundState(t)
<1>1. CASE e.op \in {"add_agent", "add_object"}
  <2>1. t \in Added(s, e.op, e.payload) BY <1>1 DEF Results
  <2> QED BY <1>1, <2>1, AddedSound
<1>2. CASE e.op \in {"remove_agent", "remove_object"}
  <2>1. t \in Removed(s, e.op, String(e.payload, "name")) BY <1>2 DEF Results
  <2> QED BY <2>1, RemovedSound
<1>3. CASE e.op \in {"add_topology_edges", "remove_topology_edges"}
  <2>1. t \in Linked(s, e.op, {EdgeOf(edge) : edge \in List(e.payload, "edges")}) BY <1>3 DEF Results
  <2> QED BY <2>1, LinkedSound
<1>4. CASE e.op = "set_options"
  <2> DEFINE options == Merge(s.options, StringMap(e.payload, "options"))
  <2>1. t = State(s.name, s.phase, s.agents, s.objects, s.topology, options) BY <1>4 DEF Results
  <2>2. SoundMap(options) BY SoundParts, StringMapSound, MergeSound
  <2> HIDE DEF options
  <2> QED BY <2>1, <2>2, SoundParts, SoundWhole
<1>5. CASE e.op = "update_config"
  <2>1. t \in Configured(s, String(e.payload, "target"), StringMap(e.payload, "config")) BY <1>5 DEF Results
  <2> QED BY <2>1, StringMapSound, ConfiguredSound
<1>6. CASE e.op = "bump_package"
  <2>1. t \in Bumped(s, String(e.payload, "target"), String(e.payload, "field"),
                     String(e.payload, "from"), String(e.payload, "to"))
    BY <1>6 DEF Results
  <2> QED BY <2>1, BumpedSound
<1>7. e.op \in {"add_agent", "add_object", "remove_agent", "remove_object", "add_topology_edges",
                "remove_topology_edges", "set_options", "update_config", "bump_package"}
  BY DEF GoodPayload
<1> QED BY <1>1, <1>2, <1>3, <1>4, <1>5, <1>6, <1>7

LEMMA PinnedRefSound ==
  ASSUME NEW r, SoundRef(r), NEW releases
  PROVE  /\ SoundRef(PinnedRef(r, releases)) /\ PinnedRef(r, releases).kind = r.kind
         /\ PinnedRef(r, releases).scheme = r.scheme
BY DigestSound DEF PinnedRef

LEMMA PinnedAgentSound ==
  ASSUME NEW a, SoundAgent(a), NEW releases
  PROVE  SoundAgent(PinnedAgent(a, releases)) /\ PinnedAgent(a, releases).name = a.name
<1>1. SoundRef(a.body) /\ SoundRef(a.model.ref) /\ SoundRef(a.backend) BY DEF SoundAgent
<1>2. /\ SoundRef(PinnedRef(a.body, releases)) /\ PinnedRef(a.body, releases).kind = a.body.kind
      /\ SoundRef(PinnedRef(a.model.ref, releases))
      /\ PinnedRef(a.model.ref, releases).kind = a.model.ref.kind
      /\ PinnedRef(a.model.ref, releases).scheme = a.model.ref.scheme
  BY <1>1, PinnedRefSound
<1> QED BY <1>1, <1>2, RefsReplaced DEF PinnedAgent

LEMMA PinnedObjectSound ==
  ASSUME NEW o, SoundObject(o), NEW releases
  PROVE  SoundObject(PinnedObject(o, releases)) /\ PinnedObject(o, releases).name = o.name
<1> DEFINE b == PinnedObject(o, releases)
<1>1. /\ b.name = o.name /\ b.handler = PinnedRef(o.handler, releases) /\ b.config = o.config
      /\ b = ObjectWith(b, b.handler, b.config)
  BY DEF PinnedObject, ObjectWith
<1> HIDE DEF b
<1>2. SoundRef(o.handler) /\ o.handler.kind = "code" /\ o.name # "" /\ SoundMap(o.config)
  BY DEF SoundObject
<1>3. SoundRef(b.handler) /\ b.handler.kind = "code"
  <2>1. SoundRef(PinnedRef(o.handler, releases)) /\ PinnedRef(o.handler, releases).kind = "code"
    BY <1>2, PinnedRefSound
  <2> QED BY <1>1, <2>1
<1>4. SoundObject(b) BY <1>1, <1>2, <1>3 DEF SoundObject
<1> QED BY <1>1, <1>4 DEF b

LEMMA PinnedSound ==
  ASSUME NEW s, SoundState(s), NEW releases
  PROVE  SoundState(Pinned(s, releases))
<1> DEFINE agents == {PinnedAgent(a, releases) : a \in s.agents}
           objects == {PinnedObject(o, releases) : o \in s.objects}
<1>1. Pinned(s, releases) = State(s.name, s.phase, agents, objects, s.topology, s.options)
  BY DEF Pinned, WithNodes
<1>2. \A b \in agents : \E a \in s.agents : b = PinnedAgent(a, releases) OBVIOUS
<1>3. \A b \in objects : \E o \in s.objects : b = PinnedObject(o, releases) OBVIOUS
<1>4. \A a \in s.agents : PinnedAgent(a, releases) \in agents OBVIOUS
<1>5. \A o \in s.objects : PinnedObject(o, releases) \in objects OBVIOUS
<1> HIDE DEF agents, objects
<1>6. \A a \in s.agents : SoundAgent(PinnedAgent(a, releases)) /\ PinnedAgent(a, releases).name = a.name
  BY SoundParts, PinnedAgentSound
<1>7. \A o \in s.objects : SoundObject(PinnedObject(o, releases)) /\ PinnedObject(o, releases).name = o.name
  BY SoundParts, PinnedObjectSound
<1>8. (\A b \in agents : SoundAgent(b)) /\ (\A b \in objects : SoundObject(b)) BY <1>2, <1>3, <1>6, <1>7
<1>9. Unique(agents \cup objects)
  <2> SUFFICES ASSUME NEW x \in agents \cup objects, NEW y \in agents \cup objects, x.name = y.name
               PROVE  x = y
    BY DEF Unique
  <2>1. PICK p \in s.agents \cup s.objects :
          /\ p.name = x.name
          /\ \/ p \in s.agents /\ x = PinnedAgent(p, releases)
             \/ p \in s.objects /\ x = PinnedObject(p, releases)
    BY <1>2, <1>3, <1>6, <1>7
  <2>2. PICK q \in s.agents \cup s.objects :
          /\ q.name = y.name
          /\ \/ q \in s.agents /\ y = PinnedAgent(q, releases)
             \/ q \in s.objects /\ y = PinnedObject(q, releases)
    BY <1>2, <1>3, <1>6, <1>7
  <2>3. p = q BY <2>1, <2>2, SoundParts DEF Unique
  <2>4. ~(p \in s.agents /\ p \in s.objects) BY SoundParts, AgentNotObject
  <2> QED BY <2>1, <2>2, <2>3, <2>4
<1>10. NamesOf(s.agents \cup s.objects) \subseteq NamesOf(agents \cup objects)
  <2> SUFFICES ASSUME NEW x \in s.agents \cup s.objects PROVE \E y \in agents \cup objects : y.name = x.name
    BY DEF NamesOf
  <2> QED BY <1>4, <1>5, <1>6, <1>7
<1>11. s.topology \subseteq NamesOf(agents \cup objects) \X NamesOf(agents \cup objects)
  BY <1>10, SoundParts
<1> QED BY <1>1, <1>8, <1>9, <1>11, SoundParts, SoundWhole

\* After AllAuthentic, pinning leaves a digest in every package slot.
AllAuthenticated(s) ==
  /\ \A a \in s.agents : Authenticated(a.body) /\ Authenticated(a.model.ref)
  /\ \A o \in s.objects : Authenticated(o.handler)

LEMMA PinnedAuthenticated ==
  ASSUME NEW s, SoundState(s), NEW releases \in Releases, AllAuthentic(s, releases)
  PROVE  AllAuthenticated(Pinned(s, releases))
<1>1. \A ref \in DOMAIN releases : releases[ref].digest \in Digests BY FileAssumption
<1>2. ASSUME NEW r, SoundRef(r), NEW kind, Authentic(r, kind, releases)
      PROVE  Authenticated(PinnedRef(r, releases))
  <2>1. CASE r.scheme = "swarmidx"
    <3>1. PinnedRef(r, releases) = WithDigest(r, releases[r.ref].digest) BY <2>1 DEF PinnedRef
    <3>2. releases[r.ref].digest \in Digests BY <1>1, <1>2, <2>1 DEF Authentic
    <3> QED BY <1>2, <3>1, <3>2, DigestSound DEF Authenticated
  <2>2. CASE r.scheme # "swarmidx" BY <2>2 DEF PinnedRef, Authenticated
  <2> QED BY <2>1, <2>2
<1>3. \A a \in s.agents : LET b == PinnedAgent(a, releases)
                          IN Authenticated(b.body) /\ Authenticated(b.model.ref)
  <2> SUFFICES ASSUME NEW a \in s.agents
               PROVE  /\ Authenticated(PinnedAgent(a, releases).body)
                      /\ Authenticated(PinnedAgent(a, releases).model.ref)
    OBVIOUS
  <2>1. SoundRef(a.body) /\ SoundRef(a.model.ref) BY SoundParts DEF SoundAgent
  <2>2. Authentic(a.body, "body", releases) /\ Authentic(a.model.ref, "policy", releases) BY DEF AllAuthentic
  <2>3. /\ PinnedAgent(a, releases).body = PinnedRef(a.body, releases)
        /\ PinnedAgent(a, releases).model.ref = PinnedRef(a.model.ref, releases)
    BY DEF PinnedAgent, AgentWith
  <2> QED BY <1>2, <2>1, <2>2, <2>3
<1>4. \A o \in s.objects : Authenticated(PinnedObject(o, releases).handler)
  <2> SUFFICES ASSUME NEW o \in s.objects PROVE Authenticated(PinnedObject(o, releases).handler) OBVIOUS
  <2>1. SoundRef(o.handler) BY SoundParts DEF SoundObject
  <2>2. Authentic(o.handler, "handler", releases) BY DEF AllAuthentic
  <2>3. PinnedObject(o, releases).handler = PinnedRef(o.handler, releases) BY DEF PinnedObject, ObjectWith
  <2> QED BY <1>2, <2>1, <2>2, <2>3
<1>5. /\ Pinned(s, releases).agents = {PinnedAgent(a, releases) : a \in s.agents}
      /\ Pinned(s, releases).objects = {PinnedObject(o, releases) : o \in s.objects}
  BY DEF Pinned, WithNodes, State
<1> QED BY <1>3, <1>4, <1>5 DEF AllAuthenticated

-----------------------------------------------------------------------------
(* Events on disk and in memory                                            *)

LEMMA EventsAreGood ==
  ASSUME NEW e \in Events
  PROVE  GoodPayload(e.op, e.payload) /\ e.op # "scale_agent_group"
<1>1. PICK m \in Overlays \cup Emitted : GoodOverlay(m) /\ \E i \in DOMAIN EventsOf(m) : e = EventsOf(m)[i]
  BY DEF Events
<1>2. PICK i \in DOMAIN EventsOf(m) : e = EventsOf(m)[i] BY <1>1
<1>3. i \in DOMAIN Map(m, "events") BY DEF EventsOf
<1> DEFINE v == Map(m, "events")[i][2]
<1>4. e = [op |-> String(v, "op"), payload |-> Map(v, "payload")] BY <1>2, <1>3 DEF EventsOf
<1>5. GoodPayload(String(v, "op"), Map(v, "payload")) BY <1>1, <1>3 DEF GoodOverlay, GoodEvent
<1> HIDE DEF v
<1>6. GoodPayload(e.op, e.payload) BY <1>4, <1>5
<1> QED BY <1>6, FileAssumption

LEMMA EmittedList ==
  ASSUME NEW op, NEW payload
  PROVE  LET m == OverlayOf(op, payload)
         IN Len(Map(m, "events")) \in Nat /\ DOMAIN Map(m, "events") = 1..Len(Map(m, "events"))
<1> DEFINE m == OverlayOf(op, payload)
           event == Obj([seq |-> Num(1), op |-> Str(op), payload |-> Obj(payload)])
<1>1. At(m, "events") = Arr(<<event>>) BY DEF OverlayOf, At
<1> HIDE DEF m, event
<1>2. Map(m, "events") = <<event>> BY <1>1, TypesDiffer DEF Map
<1>3. Len(<<event>>) = 1 /\ DOMAIN <<event>> = 1..1 OBVIOUS
<1> QED BY <1>2, <1>3 DEF m

LEMMA EventsAreEvents ==
  ASSUME NEW m \in Overlays \cup Emitted, GoodOverlay(m)
  PROVE  EventsOf(m) \in Seq(Events)
<1> DEFINE list == Map(m, "events")
<1>1. Len(list) \in Nat /\ DOMAIN list = 1..Len(list)
  <2>1. CASE m \in Overlays
    <3>1. Type(m, "events") = "array" BY DEF GoodOverlay
    <3> QED BY <2>1, <3>1, FileAssumption
  <2>2. CASE m \in Emitted
    <3>1. \E op, payload : m = OverlayOf(op, payload) BY <2>2 DEF Emitted
    <3> QED BY <3>1, EmittedList
  <2> QED BY <2>1, <2>2
<1>2. \A i \in 1..Len(list) : EventsOf(m)[i] \in Events BY <1>1 DEF Events, EventsOf
<1>3. EventsOf(m) = [i \in 1..Len(list) |-> EventsOf(m)[i]] BY <1>1 DEF EventsOf
<1> HIDE DEF list
<1> QED BY <1>1, <1>2, <1>3

-----------------------------------------------------------------------------
(* The invariant                                                           *)

LEMMA NoStateUnsound == ~SoundState(NoState)
BY DEF SoundState, NoState, State

LEMMA InitInv == Init => IInv
<1> SUFFICES ASSUME Init PROVE IInv OBVIOUS
<1>1. TypeOK BY FileAssumption DEF Init, TypeOK, Idle
<1> QED BY <1>1 DEF Init, IInv

LEMMA WriteInv == ASSUME IInv, NEW m \in Overlays \cup Emitted, WriteOverlay(m) PROVE IInv'
<1>1. count' \in 0..MaxOverlays BY FileAssumption DEF IInv, TypeOK, WriteOverlay
<1>2. TypeOK' BY <1>1 DEF IInv, TypeOK, WriteOverlay, Idle
<1> QED BY <1>2 DEF IInv, WriteOverlay

LEMMA ReadInv == ASSUME IInv, ReadState \/ ReadForVendor PROVE IInv'
<1>1. GoodState(file) /\ state' = StateOf(file) /\ phase' \in {"folding", "vendoring"}
      /\ UNCHANGED <<file, overlay, pending, count>>
  BY DEF ReadState, ReadForVendor
<1>2. SoundState(state') BY <1>1, StateOfSound
<1>3. pending = <<>> BY DEF IInv, TypeOK, Idle, ReadState, ReadForVendor
<1>4. TypeOK' BY <1>1, <1>2, <1>3, NoStateUnsound DEF IInv, TypeOK, Idle
<1> QED BY <1>1, <1>2, <1>4 DEF IInv

LEMMA ReadOverlayInv == ASSUME IInv, ReadOverlay PROVE IInv'
<1>1. overlay \in Overlays \cup Emitted BY DEF IInv, TypeOK, ReadOverlay
<1>2. pending' \in Seq(Events) BY <1>1, EventsAreEvents DEF ReadOverlay
<1>3. TypeOK' BY <1>2 DEF IInv, TypeOK, Idle, ReadOverlay
<1> QED BY <1>3 DEF IInv, ReadOverlay

LEMMA FoldInv == ASSUME IInv, FoldEvent PROVE IInv'
<1>1. pending \in Seq(Events) /\ pending # <<>> BY DEF IInv, TypeOK, FoldEvent
<1>2. Head(pending) \in Events /\ Tail(pending) \in Seq(Events) BY <1>1
<1>3. SoundState(state) BY DEF IInv, TypeOK, Idle, FoldEvent
<1>4. SoundState(state') BY <1>2, <1>3, EventsAreGood, ResultsSound DEF FoldEvent
<1>5. TypeOK' BY <1>2, <1>4, NoStateUnsound DEF IInv, TypeOK, Idle, FoldEvent
<1> QED BY <1>4, <1>5 DEF IInv, FoldEvent

LEMMA PinInv ==
  ASSUME IInv, NEW releases \in Releases, Resolve(releases) \/ Authenticate(releases)
  PROVE  IInv'
<1>1. /\ AllAuthentic(state, releases) /\ state' = Pinned(state, releases)
      /\ phase \in {"folding", "vendoring"} /\ pending = <<>> /\ phase' \in {"resolved", "authenticated"}
      /\ UNCHANGED <<file, overlay, pending, count>>
  BY DEF Resolve, Authenticate, IInv, TypeOK
<1>2. SoundState(state) BY <1>1 DEF IInv, TypeOK, Idle
<1>3. SoundState(state') BY <1>1, <1>2, PinnedSound
<1>4. AllAuthenticated(state') BY <1>1, <1>2, PinnedAuthenticated
<1>5. TypeOK' BY <1>1, <1>3, NoStateUnsound DEF IInv, TypeOK, Idle
<1> QED BY <1>3, <1>4, <1>5 DEF IInv, AllAuthenticated

LEMMA EmitInv == ASSUME IInv, Emit PROVE IInv'
<1>1. SoundState(state) BY DEF IInv, TypeOK, Idle, Emit
<1>2. GoodState(file') BY <1>1, StateRoundTrip DEF Emit
<1>3. pending = <<>> BY DEF IInv, TypeOK, Emit
<1>4. TypeOK' BY <1>2, <1>3 DEF IInv, TypeOK, Idle, Emit
<1> QED BY <1>4 DEF IInv, Emit

LEMMA FailInv == ASSUME IInv, Fail PROVE IInv'
<1>1. /\ overlay' \in {overlay, NoFile} /\ phase' = "failed" /\ state' = NoState /\ pending' = <<>>
      /\ UNCHANGED <<file, count>>
  BY DEF Fail
<1>2. TypeOK' BY <1>1 DEF IInv, TypeOK, Idle
<1> QED BY <1>1, <1>2 DEF IInv

LEMMA HandOverInv == ASSUME IInv, HandOver PROVE IInv'
<1>1. TypeOK' BY DEF IInv, TypeOK, Idle, HandOver
<1> QED BY <1>1 DEF IInv, HandOver

\* The overlays that commands write are the ones of Emitted.
LEMMA WriteIsWriteOverlay == ASSUME Write PROVE \E m \in Overlays \cup Emitted : WriteOverlay(m)
<1>1. CASE \E m \in Overlays : WriteOverlay(m) BY <1>1
<1>2. CASE \E name \in NodeNames, ref \in Packages, model \in Models, backend \in Backends :
             AddAgent(name, ref, model, backend)
  <2>1. PICK name \in NodeNames, ref \in Packages, model \in Models, backend \in Backends :
          AddAgent(name, ref, model, backend)
    BY <1>2
  <2>2. OverlayOf("add_agent", AddedAgent(name, ref, model, backend)) \in Emitted BY DEF Emitted
  <2> QED BY <2>1, <2>2 DEF AddAgent, EmitOverlay
<1>3. CASE \E name \in NodeNames, ref \in Packages : AddObject(name, ref)
  <2>1. PICK name \in NodeNames, ref \in Packages : AddObject(name, ref) BY <1>3
  <2>2. OverlayOf("add_object", AddedObject(name, ref)) \in Emitted BY DEF Emitted
  <2> QED BY <2>1, <2>2 DEF AddObject, EmitOverlay
<1>4. CASE \E target \in NodeNames, field \in Fields, from, to \in Digests : Bump(target, field, from, to)
  <2>1. PICK target \in NodeNames, field \in Fields, from \in Digests, to \in Digests :
          Bump(target, field, from, to)
    BY <1>4
  <2>2. OverlayOf("bump_package", BumpTo(target, field, from, to)) \in Emitted BY DEF Emitted
  <2> QED BY <2>1, <2>2 DEF Bump, EmitOverlay
<1> QED BY <1>1, <1>2, <1>3, <1>4 DEF Write

LEMMA StepInv == IInv /\ [Next]_vars => IInv'
<1> SUFFICES ASSUME IInv, [Next]_vars PROVE IInv' OBVIOUS
<1>1. CASE Write BY <1>1, WriteIsWriteOverlay, WriteInv
<1>2. CASE ReadState \/ ReadForVendor BY <1>2, ReadInv
<1>3. CASE ReadOverlay BY <1>3, ReadOverlayInv
<1>4. CASE FoldEvent BY <1>4, FoldInv
<1>5. CASE Emit BY <1>5, EmitInv
<1>6. CASE Fail BY <1>6, FailInv
<1>7. CASE \E releases \in Releases : Resolve(releases) \/ Authenticate(releases) BY <1>7, PinInv
<1>8. CASE HandOver BY <1>8, HandOverInv
<1>9. CASE UNCHANGED vars BY <1>9 DEF vars, IInv, TypeOK, Idle
<1> QED BY <1>1, <1>2, <1>3, <1>4, <1>5, <1>6, <1>7, <1>8, <1>9 DEF Next, Materialize, Vendor

\* The inductive invariant: whatever commands ran, a state in memory is sound.
THEOREM Invariance == Spec => []IInv
BY InitInv, StepInv, PTL DEF Spec

\* Overlays, states and pending events stay what the commands take them for, and a file
\* that a command wrote can be read by the next.
THEOREM TypeCorrect == Spec => []TypeOK
<1>1. IInv => TypeOK BY DEF IInv
<1> QED BY <1>1, Invariance, PTL

\* What would be written at any moment is read as exactly the state in memory.
THEOREM CheckpointsAreExact == Spec => []CheckpointExact
<1>1. IInv => CheckpointExact BY StateRoundTrip DEF IInv, CheckpointExact
<1> QED BY <1>1, Invariance, PTL

\* Once a state is authenticated, every package it names in any slot has a verified
\* digest and is one that "gsp vendor" fetches.
THEOREM PackagesAreAuthenticated == Spec => []PackagesAuthenticated
<1>1. IInv => PackagesAuthenticated
  <2> SUFFICES ASSUME IInv, phase \in {"resolved", "authenticated"},
                      NEW r \in Refs(state), r.scheme = "swarmidx"
               PROVE  r.ref \in SwarmidxRefs(state) /\ Resolved(r)
    BY DEF PackagesAuthenticated
  <2>1. SoundState(state) BY DEF IInv, TypeOK, Idle
  <2>2. \A a \in state.agents : a.backend.scheme # "swarmidx" BY <2>1, SoundParts DEF SoundAgent
  <2>3. \/ \E a \in state.agents : r \in {a.body, a.model.ref}
        \/ \E o \in state.objects : r = o.handler
    BY <2>2 DEF Refs
  <2>4. r.ref \in SwarmidxRefs(state) BY <2>3 DEF SwarmidxRefs
  <2>5. r.digest \in Digests BY <2>3 DEF IInv, Authenticated
  <2> QED BY <2>4, <2>5 DEF Resolved, ContentAddressable
<1> QED BY <1>1, Invariance, PTL

-----------------------------------------------------------------------------
(* Files are as good as memory                                             *)

Current == IF GoodState(file) THEN StateOf(file) ELSE NoState
Work == IF phase \in {"folding", "resolved"} THEN state ELSE NoState

LEMMA InitRefines == Init => Memory!Init
BY DEF Init, Memory!Init, Initially

\* Every step of the commands is a step of SwarmMemory or leaves both its variables alone.
LEMMA StepRefines ==
  ASSUME IInv, IInv', [Next]_vars
  PROVE  [Memory!Next]_<<Current, Work>>
<1>1. CASE Write \/ UNCHANGED vars
  <2>1. UNCHANGED <<file, state, phase>>
    BY <1>1, WriteIsWriteOverlay DEF WriteOverlay, vars
  <2> QED BY <2>1 DEF Current, Work
<1>2. CASE ReadState
  <2>1. Current' = Current /\ Current = StateOf(file) BY <1>2 DEF ReadState, Current
  <2>2. Work = NoState BY <1>2 DEF ReadState, Work, Idle
  <2>3. Work' = StateOf(file) BY <1>2 DEF ReadState, Work
  <2>4. Work' # NoState BY <1>2, <2>3, StateOfSound, NoStateUnsound DEF ReadState
  <2>5. Memory!Begin BY <2>1, <2>2, <2>3, <2>4 DEF Memory!Begin, Current, Work
  <2> QED BY <2>5 DEF Memory!Next
<1>3. CASE ReadOverlay
  <2>1. UNCHANGED <<file, state, phase>> BY <1>3 DEF ReadOverlay
  <2> QED BY <2>1 DEF Current, Work
<1>4. CASE FoldEvent
  <2>1. Current' = Current /\ Work = state /\ Work' = state' BY <1>4 DEF FoldEvent, Current, Work
  <2>2. state # NoState /\ state' # NoState BY <1>4 DEF FoldEvent, IInv, TypeOK, Idle
  <2>3. Head(pending) \in Events
    <3>1. pending \in Seq(Events) /\ pending # <<>> BY <1>4 DEF IInv, TypeOK, FoldEvent
    <3> QED BY <3>1
  <2>4. Step(Work, Work') BY <1>4, <2>1, <2>3 DEF FoldEvent, Step
  <2>5. Memory!Change BY <2>1, <2>2, <2>4 DEF Memory!Change, Current, Work
  <2> QED BY <2>5 DEF Memory!Next
<1>5. CASE \E releases \in Releases : Resolve(releases)
  <2>1. Current' = Current /\ Work = state /\ Work' = state' BY <1>5 DEF Resolve, Current, Work
  <2>2. state # NoState /\ state' # NoState BY <1>5 DEF Resolve, IInv, TypeOK, Idle
  <2>3. Pin(Work, Work') BY <1>5, <2>1 DEF Resolve, Pin
  <2>4. Memory!Change BY <2>1, <2>2, <2>3 DEF Memory!Change, Current, Work
  <2> QED BY <2>4 DEF Memory!Next
<1>6. CASE Emit
  <2>1. Work = state /\ Work' = NoState BY <1>6 DEF Emit, Work
  <2>2. state # NoState /\ SoundState(state) BY <1>6 DEF Emit, IInv, TypeOK, Idle
  <2>3. Current' = state BY <1>6, <2>2, StateRoundTrip DEF Emit, Current
  <2>4. Memory!Replace BY <2>1, <2>2, <2>3 DEF Memory!Replace, Current, Work
  <2> QED BY <2>4 DEF Memory!Next
<1>7. CASE Fail
  <2>1. Current' = Current /\ Work' = NoState BY <1>7 DEF Fail, Current, Work
  <2>2. CASE Work = NoState BY <2>1, <2>2
  <2>3. CASE Work # NoState
    <3>1. Memory!Abandon BY <2>1, <2>3 DEF Memory!Abandon, Current, Work
    <3> QED BY <3>1 DEF Memory!Next
  <2> QED BY <2>2, <2>3
<1>8. CASE ReadForVendor \/ HandOver \/ \E releases \in Releases : Authenticate(releases)
  <2>1. UNCHANGED file /\ {phase, phase'} \subseteq {"done", "failed", "vendoring", "authenticated"}
    BY <1>8 DEF ReadForVendor, HandOver, Authenticate, Idle
  <2>2. Work = NoState /\ Work' = NoState BY <2>1 DEF Work
  <2> QED BY <2>1, <2>2 DEF Current
<1> QED BY <1>1, <1>2, <1>3, <1>4, <1>5, <1>6, <1>7, <1>8 DEF Next, Materialize, Vendor

\* A state that went through any number of files, parsed and written by separate commands
\* with failures and vendoring in between, is one that never left memory (SwarmMemory).
THEOREM FilesAreMemory == Spec => ImplementsMemory
<1>1. IInv /\ IInv' /\ [Next]_vars => [Memory!Next]_<<Current, Work>> BY StepRefines
<1> QED BY <1>1, InitRefines, Invariance, PTL DEF Spec, ImplementsMemory, Memory!Spec, Current, Work
=============================================================================
