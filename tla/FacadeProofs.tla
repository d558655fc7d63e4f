---------------------------- MODULE FacadeProofs ----------------------------
(***************************************************************************)
(* Theorems about Facade, for any number of stacked facades: which values  *)
(* reach the backend, which code the caller catches, and what is wiped.    *)
(***************************************************************************)
EXTENDS Facade, TLAPS

-----------------------------------------------------------------------------
(* Sequences of steps *)

LEMMA Concatenation ==
    ASSUME NEW S, NEW s \in Seq(S), NEW t \in Seq(S)
    PROVE  /\ s \o t \in Seq(S)
           /\ Len(s \o t) = Len(s) + Len(t)
           /\ \A i \in 1 .. Len(s) : (s \o t)[i] = s[i]
           /\ \A i \in 1 .. Len(t) : (s \o t)[Len(s) + i] = t[i]
<1>1. s \o t \in Seq(S) /\ Len(s \o t) = Len(s) + Len(t)
  OBVIOUS
<1>2. \A i \in 1 .. Len(s) : (s \o t)[i] = s[i]
  OBVIOUS
<1>3. \A i \in 1 .. Len(t) : (s \o t)[Len(s) + i] = t[i]
  OBVIOUS
<1> QED
  BY <1>1, <1>2, <1>3

ReadKinds == {"argument", "required", "string", "optional"}
CheckKinds == {"object", "bytes", "enum", "kind", "key", "uuid", "number", "index"}
Steps ==
    [do : {"read"}, field : Fields, as : ReadKinds]
      \cup [do : {"check"}, field : Fields, as : CheckKinds]

(* The fields a step looks at, and whether it lets the values pass. *)
Uses(step) ==
    IF step.do = "check" /\ step.as = "key" THEN {step.field, <<step.field[1], "kind">>}
    ELSE {step.field}

Accepts(step, values) ==
    IF step.do = "read" THEN dtoField(step.as, values[step.field]) = "ok"
    ELSE validate(step, values) = "ok"

(* Steps that read the fields `plain' and, of each export target in `targets', the kind    *)
(* and the key: a field is checked after it is read, and read before anything looks at it; *)
(* if every step accepts the values, they are allowed.                                      *)
FieldsOf(plain, targets) == plain \cup (targets \X {"kind", "key_id"})

Good(plain, targets, values) ==
    /\ \A f \in plain : values[f] = "good"
    /\ \A t \in targets :
          <<values[<<t, "kind">>], values[<<t, "key_id">>]>>
            \in {<<"mnemonic", "absent">>, <<"software_key", "good">>}

Ordered(s) ==
    /\ \A i, j \in 1 .. Len(s) : i < j /\ s[j].do = "read" => s[j].field \notin Uses(s[i])
    /\ \A i \in 1 .. Len(s) : s[i].do = "check" =>
          \A f \in Uses(s[i]) : \E j \in 1 .. i - 1 : s[j].do = "read" /\ s[j].field = f

Covers(s, plain, targets) ==
    /\ \A i \in 1 .. Len(s) : Uses(s[i]) \subseteq FieldsOf(plain, targets)
    /\ \A f \in FieldsOf(plain, targets) :
          \E i \in 1 .. Len(s) : s[i].do = "read" /\ s[i].field = f

Allows(s, plain, targets) ==
    \A values : (\A i \in 1 .. Len(s) : Accepts(s[i], values)) => Good(plain, targets, values)

Snapshot(s, plain, targets) ==
    s \in Seq(Steps) /\ Ordered(s) /\ Covers(s, plain, targets) /\ Allows(s, plain, targets)

LEMMA Then ==
    ASSUME NEW s, NEW t, NEW P, NEW Q, NEW X, NEW Y, Snapshot(s, P, X), Snapshot(t, Q, Y),
           FieldsOf(P, X) \cap FieldsOf(Q, Y) = {}
    PROVE  Snapshot(s \o t, P \cup Q, X \cup Y)
<1> DEFINE st == s \o t
           m == Len(s)
           n == Len(t)
<1>1. /\ s \in Seq(Steps) /\ t \in Seq(Steps) /\ m \in Nat /\ n \in Nat
      /\ st \in Seq(Steps) /\ Len(st) = m + n
      /\ \A i \in 1 .. m : st[i] = s[i]
      /\ \A i \in 1 .. n : st[m + i] = t[i]
  <2>1. s \in Seq(Steps) /\ t \in Seq(Steps)
    BY DEF Snapshot
  <2> QED
    BY <2>1, Concatenation
<1>2. FieldsOf(P \cup Q, X \cup Y) = FieldsOf(P, X) \cup FieldsOf(Q, Y)
  BY DEF FieldsOf
<1> HIDE DEF st, m, n
<1>3. /\ \A i \in 1 .. m : i \in 1 .. m + n
      /\ \A i \in 1 .. n : m + i \in 1 .. m + n
      /\ \A i \in 1 .. m + n : i \in 1 .. m \/ (i - m \in 1 .. n /\ i = m + (i - m))
  BY <1>1
<1>4. /\ \A i \in 1 .. m : Uses(s[i]) \subseteq FieldsOf(P, X)
      /\ \A i \in 1 .. n : Uses(t[i]) \subseteq FieldsOf(Q, Y)
      /\ \A f \in FieldsOf(P, X) : \E i \in 1 .. m : s[i].do = "read" /\ s[i].field = f
      /\ \A f \in FieldsOf(Q, Y) : \E i \in 1 .. n : t[i].do = "read" /\ t[i].field = f
  BY DEF Snapshot, Covers, m, n
<1>5. Covers(st, P \cup Q, X \cup Y)
  <2>1. ASSUME NEW i \in 1 .. Len(st)
        PROVE  Uses(st[i]) \subseteq FieldsOf(P, X) \cup FieldsOf(Q, Y)
    <3>1. CASE i \in 1 .. m
      BY <1>1, <1>4, <3>1
    <3>2. CASE i - m \in 1 .. n /\ i = m + (i - m)
      <4>1. st[i] = t[i - m]
        BY <1>1, <3>2
      <4> QED
        BY <1>4, <3>2, <4>1
    <3> QED
      BY <1>1, <1>3, <3>1, <3>2
  <2>2. ASSUME NEW f \in FieldsOf(P, X) \cup FieldsOf(Q, Y)
        PROVE  \E i \in 1 .. Len(st) : st[i].do = "read" /\ st[i].field = f
    <3>1. CASE f \in FieldsOf(P, X)
      BY <1>1, <1>3, <1>4, <3>1
    <3>2. CASE f \in FieldsOf(Q, Y)
      <4>1. PICK i \in 1 .. n : t[i].do = "read" /\ t[i].field = f
        BY <1>4, <3>2
      <4>2. m + i \in 1 .. Len(st) /\ st[m + i] = t[i]
        BY <1>1, <1>3
      <4> QED
        BY <4>1, <4>2
    <3> QED
      BY <2>2, <3>1, <3>2
  <2> QED
    BY <1>2, <2>1, <2>2 DEF Covers
<1>6. Ordered(st)
  <2>0. /\ \A i, j \in 1 .. m : i < j /\ s[j].do = "read" => s[j].field \notin Uses(s[i])
        /\ \A i, j \in 1 .. n : i < j /\ t[j].do = "read" => t[j].field \notin Uses(t[i])
        /\ \A i \in 1 .. m : s[i].do = "check" =>
              \A f \in Uses(s[i]) : \E j \in 1 .. i - 1 : s[j].do = "read" /\ s[j].field = f
        /\ \A i \in 1 .. n : t[i].do = "check" =>
              \A f \in Uses(t[i]) : \E j \in 1 .. i - 1 : t[j].do = "read" /\ t[j].field = f
    BY DEF Snapshot, Ordered, m, n
  <2>1. ASSUME NEW i \in 1 .. Len(st), NEW j \in 1 .. Len(st), i < j, st[j].do = "read"
        PROVE  st[j].field \notin Uses(st[i])
    <3>1. CASE j \in 1 .. m
      <4>1. i \in 1 .. m
        BY <1>1, <2>1, <3>1
      <4> QED
        BY <1>1, <2>0, <2>1, <3>1, <4>1
    <3>2. CASE j - m \in 1 .. n /\ j = m + (j - m)
      <4>1. st[j] = t[j - m]
        BY <1>1, <3>2
      <4>2. CASE i \in 1 .. m
        <5>1. t[j - m].field \in Uses(t[j - m])
          BY DEF Uses
        <5>2. Uses(st[i]) \subseteq FieldsOf(P, X) /\ t[j - m].field \in FieldsOf(Q, Y)
          BY <1>1, <1>4, <3>2, <4>2, <5>1
        <5> QED
          BY <4>1, <5>2
      <4>3. CASE i - m \in 1 .. n /\ i = m + (i - m)
        <5>1. st[i] = t[i - m] /\ i - m < j - m
          BY <1>1, <2>1, <3>2, <4>3
        <5> QED
          BY <2>0, <2>1, <3>2, <4>1, <4>3, <5>1
      <4> QED
        BY <1>1, <1>3, <4>2, <4>3
    <3> QED
      BY <1>1, <1>3, <3>1, <3>2
  <2>2. ASSUME NEW i \in 1 .. Len(st), st[i].do = "check", NEW f \in Uses(st[i])
        PROVE  \E j \in 1 .. i - 1 : st[j].do = "read" /\ st[j].field = f
    <3>1. CASE i \in 1 .. m
      <4>0. s[i].do = "check" /\ f \in Uses(s[i])
        BY <1>1, <2>2, <3>1
      <4>1. PICK j \in 1 .. i - 1 : s[j].do = "read" /\ s[j].field = f
        BY <2>0, <3>1, <4>0
      <4>2. j \in 1 .. m
        BY <1>1, <3>1
      <4> QED
        BY <1>1, <4>1, <4>2
    <3>2. CASE i - m \in 1 .. n /\ i = m + (i - m)
      <4>1. st[i] = t[i - m]
        BY <1>1, <3>2
      <4>2. PICK j \in 1 .. (i - m) - 1 : t[j].do = "read" /\ t[j].field = f
        BY <2>0, <2>2, <3>2, <4>1
      <4>3. m + j \in 1 .. i - 1 /\ j \in 1 .. n
        BY <1>1, <3>2
      <4>4. st[m + j] = t[j]
        BY <1>1, <4>3
      <4> QED
        BY <4>2, <4>3, <4>4
    <3> QED
      BY <1>1, <1>3, <3>1, <3>2
  <2> QED
    BY <2>1, <2>2 DEF Ordered
<1>7. Allows(st, P \cup Q, X \cup Y)
  <2> SUFFICES ASSUME NEW values, \A i \in 1 .. Len(st) : Accepts(st[i], values)
               PROVE  Good(P \cup Q, X \cup Y, values)
    BY DEF Allows
  <2>1. \A i \in 1 .. m : Accepts(s[i], values)
    BY <1>1, <1>3
  <2>2. \A i \in 1 .. n : Accepts(t[i], values)
    <3> TAKE i \in 1 .. n
    <3>1. m + i \in 1 .. Len(st) /\ st[m + i] = t[i]
      BY <1>1, <1>3
    <3> QED
      BY <3>1
  <2>3. Good(P, X, values) /\ Good(Q, Y, values)
    BY <2>1, <2>2 DEF Snapshot, Allows, m, n
  <2> QED
    BY <2>3 DEF Good
<1> QED
  BY <1>1, <1>5, <1>6, <1>7 DEF Snapshot, st

LEMMA ThenPlain ==
    ASSUME NEW s, NEW t, NEW P, NEW Q, Snapshot(s, P, {}), Snapshot(t, Q, {}), P \cap Q = {}
    PROVE  Snapshot(s \o t, P \cup Q, {})
<1>1. {} \cup {} = {} /\ FieldsOf(P, {}) = P /\ FieldsOf(Q, {}) = Q
  BY DEF FieldsOf
<1>2. Snapshot(s \o t, P \cup Q, {} \cup {})
  BY <1>1, Then
<1> QED
  BY <1>1, <1>2

LEMMA NoSteps == Snapshot(<<>>, {}, {})
BY DEF Snapshot, Ordered, Covers, Allows, Good, FieldsOf

(* One field that is read and checked at once. *)
LEMMA ReadAndCheck ==
    ASSUME NEW object \in Objects, NEW name \in Names, NEW a \in ReadKinds,
           NEW b \in CheckKinds \ {"kind", "key"}
    PROVE  Snapshot(<<Read(object, name, a), Check(object, name, b)>>, {<<object, name>>}, {})
<1> DEFINE r == Read(object, name, a)
           c == Check(object, name, b)
           f == <<object, name>>
           s == <<r, c>>
<1>1. /\ f \in Fields /\ r \in Steps /\ c \in Steps
      /\ r.do = "read" /\ c.do = "check" /\ r.field = f /\ c.field = f
      /\ Uses(r) = {f} /\ Uses(c) = {f}
  BY DEF Fields, Steps, Read, Check, Uses
<1>2. \A values : Accepts(c, values) => values[f] = "good"
  BY DEF Accepts, validate, Allowed, Check, CheckKinds
<1> HIDE DEF r, c, f
<1>3. s \in Seq(Steps) /\ Len(s) = 2 /\ s[1] = r /\ s[2] = c
  BY <1>1
<1> HIDE DEF s
<1>4. 1 \in 1 .. 2 /\ \A i \in 1 .. 2 : i = 1 \/ i = 2
  OBVIOUS
<1>5. FieldsOf({f}, {}) = {f}
  BY DEF FieldsOf
<1>6. Ordered(s)
  <2>1. 1 \in 1 .. 2 - 1
    OBVIOUS
  <2> QED
    BY <1>1, <1>3, <1>4, <2>1 DEF Ordered
<1>7. Covers(s, {f}, {})
  <2>1. \A i \in 1 .. Len(s) : Uses(s[i]) \subseteq {f}
    BY <1>1, <1>3, <1>4
  <2>2. \E i \in 1 .. Len(s) : s[i].do = "read" /\ s[i].field = f
    BY <1>1, <1>3, <1>4
  <2> QED
    BY <1>5, <2>1, <2>2 DEF Covers
<1>8. Allows(s, {f}, {})
  BY <1>2, <1>3 DEF Allows, Good
<1> QED
  BY <1>3, <1>6, <1>7, <1>8 DEF Snapshot, s, r, c, f

(* Two fields of one object that are read before either is checked. *)
LEMMA ReadTwoAndCheck ==
    ASSUME NEW object \in Objects, NEW one \in Names, NEW two \in Names, one # two,
           NEW as \in {"enum", "uuid"}
    PROVE  Snapshot(<<Read(object, one, "string"), Read(object, two, "string"),
                      Check(object, one, as), Check(object, two, as)>>,
                    {<<object, one>>, <<object, two>>}, {})
<1> DEFINE r1 == Read(object, one, "string")
           r2 == Read(object, two, "string")
           c1 == Check(object, one, as)
           c2 == Check(object, two, as)
           f1 == <<object, one>>
           f2 == <<object, two>>
           s == <<r1, r2, c1, c2>>
<1>1. /\ f1 \in Fields /\ f2 \in Fields /\ f1 # f2
      /\ r1 \in Steps /\ r2 \in Steps /\ c1 \in Steps /\ c2 \in Steps
      /\ r1.do = "read" /\ r2.do = "read" /\ c1.do = "check" /\ c2.do = "check"
      /\ r1.field = f1 /\ r2.field = f2
      /\ Uses(r1) = {f1} /\ Uses(r2) = {f2} /\ Uses(c1) = {f1} /\ Uses(c2) = {f2}
  BY DEF Fields, Steps, Read, Check, Uses, ReadKinds, CheckKinds
<1>2. \A values : /\ Accepts(c1, values) => values[f1] = "good"
                  /\ Accepts(c2, values) => values[f2] = "good"
  BY DEF Accepts, validate, Allowed, Check
<1> HIDE DEF r1, r2, c1, c2, f1, f2
<1>3. s \in Seq(Steps) /\ Len(s) = 4 /\ s[1] = r1 /\ s[2] = r2 /\ s[3] = c1 /\ s[4] = c2
  BY <1>1
<1> HIDE DEF s
<1>4. /\ \A i \in 1 .. 4 : i = 1 \/ i = 2 \/ i = 3 \/ i = 4
      /\ 1 \in 1 .. 4 /\ 2 \in 1 .. 4 /\ 3 \in 1 .. 4 /\ 4 \in 1 .. 4
      /\ 1 \in 1 .. 3 - 1 /\ 2 \in 1 .. 4 - 1
  OBVIOUS
<1>5. FieldsOf({f1, f2}, {}) = {f1, f2}
  BY DEF FieldsOf
<1>6. Ordered(s)
  <2>1. \A i, j \in 1 .. 4 : i < j /\ s[j].do = "read" => s[j].field \notin Uses(s[i])
    <3> SUFFICES ASSUME NEW i \in 1 .. 4, NEW j \in 1 .. 4, i < j, s[j].do = "read"
                 PROVE  s[j].field \notin Uses(s[i])
      OBVIOUS
    <3>1. i = 1 /\ j = 2
      BY <1>1, <1>3, <1>4
    <3> QED
      BY <1>1, <1>3, <3>1
  <2>2. \A i \in 1 .. 4 : s[i].do = "check" =>
          \A f \in Uses(s[i]) : \E j \in 1 .. i - 1 : s[j].do = "read" /\ s[j].field = f
    <3> SUFFICES ASSUME NEW i \in 1 .. 4, s[i].do = "check", NEW f \in Uses(s[i])
                 PROVE  \E j \in 1 .. i - 1 : s[j].do = "read" /\ s[j].field = f
      OBVIOUS
    <3>1. CASE i = 3
      BY <1>1, <1>3, <1>4, <3>1
    <3>2. CASE i = 4
      BY <1>1, <1>3, <1>4, <3>2
    <3> QED
      BY <1>1, <1>3, <1>4, <3>1, <3>2
  <2> QED
    BY <1>3, <2>1, <2>2 DEF Ordered
<1>7. Covers(s, {f1, f2}, {})
  <2>1. \A i \in 1 .. Len(s) : Uses(s[i]) \subseteq {f1, f2}
    BY <1>1, <1>3, <1>4
  <2>2. \A f \in {f1, f2} : \E i \in 1 .. Len(s) : s[i].do = "read" /\ s[i].field = f
    BY <1>1, <1>3, <1>4
  <2> QED
    BY <1>5, <2>1, <2>2 DEF Covers
<1>8. Allows(s, {f1, f2}, {})
  BY <1>2, <1>3, <1>4 DEF Allows, Good
<1> QED
  BY <1>3, <1>6, <1>7, <1>8 DEF Snapshot, s, r1, r2, c1, c2, f1, f2

LEMMA TargetSnapshot ==
    ASSUME NEW t \in ExportTargets
    PROVE  Snapshot(snapshotExportTarget(t), {<<t, "profile_id">>}, {t})
<1> DEFINE r1 == Read(t, "kind", "string")
           c1 == Check(t, "kind", "kind")
           r2 == Read(t, "profile_id", "string")
           c2 == Check(t, "profile_id", "uuid")
           r3 == Read(t, "key_id", "optional")
           c3 == Check(t, "key_id", "key")
           kind == <<t, "kind">>
           id == <<t, "profile_id">>
           key == <<t, "key_id">>
           s == <<r1, c1, r2, c2, r3, c3>>
<1>1. /\ kind \in Fields /\ id \in Fields /\ key \in Fields
      /\ kind # id /\ kind # key /\ id # key
  BY DEF Fields, Objects, Names
<1>2. /\ r1 \in Steps /\ r2 \in Steps /\ r3 \in Steps
      /\ c1 \in Steps /\ c2 \in Steps /\ c3 \in Steps
  BY <1>1 DEF Steps, Read, Check, ReadKinds, CheckKinds
<1>3. /\ r1.do = "read" /\ r2.do = "read" /\ r3.do = "read"
      /\ c1.do = "check" /\ c2.do = "check" /\ c3.do = "check"
      /\ r1.field = kind /\ r2.field = id /\ r3.field = key
      /\ Uses(r1) = {kind} /\ Uses(r2) = {id} /\ Uses(r3) = {key}
      /\ Uses(c1) = {kind} /\ Uses(c2) = {id} /\ Uses(c3) = {kind, key}
  BY DEF Read, Check, Uses
<1>4. \A values :
        /\ Accepts(c2, values) => values[id] = "good"
        /\ Accepts(c3, values) => <<values[kind], values[key]>>
             \in {<<"mnemonic", "absent">>, <<"software_key", "good">>}
  BY DEF Accepts, validate, Allowed, Check
<1>5. FieldsOf({id}, {t}) = {kind, id, key}
  BY DEF FieldsOf
<1>6. \A values : values[id] = "good" /\ <<values[kind], values[key]>>
             \in {<<"mnemonic", "absent">>, <<"software_key", "good">>}
          => Good({id}, {t}, values)
  BY DEF Good
<1> HIDE DEF r1, r2, r3, c1, c2, c3, kind, id, key
<1>7. /\ s \in Seq(Steps) /\ Len(s) = 6 /\ s[1] = r1 /\ s[2] = c1 /\ s[3] = r2 /\ s[4] = c2
      /\ s[5] = r3 /\ s[6] = c3
  BY <1>2
<1> HIDE DEF s
<1>8. /\ \A i \in 1 .. 6 : i = 1 \/ i = 2 \/ i = 3 \/ i = 4 \/ i = 5 \/ i = 6
      /\ 1 \in 1 .. 6 /\ 3 \in 1 .. 6 /\ 4 \in 1 .. 6 /\ 5 \in 1 .. 6 /\ 6 \in 1 .. 6
      /\ 1 \in 1 .. 2 - 1 /\ 3 \in 1 .. 4 - 1 /\ 1 \in 1 .. 6 - 1 /\ 5 \in 1 .. 6 - 1
  OBVIOUS
<1>9. Ordered(s)
  <2>1. \A i, j \in 1 .. 6 : i < j /\ s[j].do = "read" => s[j].field \notin Uses(s[i])
    <3> SUFFICES ASSUME NEW i \in 1 .. 6, NEW j \in 1 .. 6, i < j, s[j].do = "read"
                 PROVE  s[j].field \notin Uses(s[i])
      OBVIOUS
    <3>1. \/ j = 3 /\ (i = 1 \/ i = 2)
          \/ j = 5 /\ (i = 1 \/ i = 2 \/ i = 3 \/ i = 4)
      BY <1>3, <1>7, <1>8
    <3> QED
      BY <1>1, <1>3, <1>7, <3>1
  <2>2. \A i \in 1 .. 6 : s[i].do = "check" =>
          \A f \in Uses(s[i]) : \E j \in 1 .. i - 1 : s[j].do = "read" /\ s[j].field = f
    <3> SUFFICES ASSUME NEW i \in 1 .. 6, s[i].do = "check", NEW f \in Uses(s[i])
                 PROVE  \E j \in 1 .. i - 1 : s[j].do = "read" /\ s[j].field = f
      OBVIOUS
    <3>1. CASE i = 2
      BY <1>3, <1>7, <1>8, <3>1
    <3>2. CASE i = 4
      BY <1>3, <1>7, <1>8, <3>2
    <3>3. CASE i = 6
      BY <1>3, <1>7, <1>8, <3>3
    <3> QED
      BY <1>3, <1>7, <1>8, <3>1, <3>2, <3>3
  <2> QED
    BY <1>7, <2>1, <2>2 DEF Ordered
<1>10. Covers(s, {id}, {t})
  <2>1. \A i \in 1 .. Len(s) : Uses(s[i]) \subseteq {kind, id, key}
    BY <1>3, <1>7, <1>8
  <2>2. \A f \in {kind, id, key} : \E i \in 1 .. Len(s) : s[i].do = "read" /\ s[i].field = f
    BY <1>3, <1>7, <1>8
  <2> QED
    BY <1>5, <2>1, <2>2 DEF Covers
<1>11. Allows(s, {id}, {t})
  BY <1>4, <1>6, <1>7, <1>8 DEF Allows
<1>12. s = snapshotExportTarget(t)
  BY DEF s, r1, r2, r3, c1, c2, c3, snapshotExportTarget
<1> QED
  BY <1>7, <1>9, <1>10, <1>11, <1>12 DEF Snapshot, id

(* The parts that the requests are made of. *)
LEMMA Parts ==
    /\ \A object \in Objects, name \in Names :
          /\ Snapshot(Nested(object, name), {<<object, name>>}, {})
          /\ Snapshot(snapshotUint8Array(object, name), {<<object, name>>}, {})
          /\ Snapshot(Status(object), {<<object, "status">>}, {})
    /\ \A name \in Names, as \in {"object", "uuid", "number", "index"} :
          Snapshot(Argument(name, as), {<<"argument", name>>}, {})
    /\ Snapshot(snapshotAccountContext, {<<"context", "chain">>, <<"context", "network">>}, {})
<1> USE ReadAndCheck DEF ReadKinds, CheckKinds
<1>1. \A object \in Objects, name \in Names :
        Snapshot(Nested(object, name), {<<object, name>>}, {})
  BY DEF Nested
<1>2. \A object \in Objects, name \in Names :
        Snapshot(snapshotUint8Array(object, name), {<<object, name>>}, {})
  BY DEF snapshotUint8Array
<1>3. \A object \in Objects : Snapshot(Status(object), {<<object, "status">>}, {})
  <2>1. "status" \in Names
    BY DEF Names
  <2> QED
    BY <2>1 DEF Status
<1>4. \A name \in Names, as \in {"object", "uuid", "number", "index"} :
        Snapshot(Argument(name, as), {<<"argument", name>>}, {})
  <2>1. "argument" \in Objects
    BY DEF Objects
  <2> QED
    BY <2>1 DEF Argument
<1>5. Snapshot(snapshotAccountContext, {<<"context", "chain">>, <<"context", "network">>}, {})
  <2>1. "context" \in Objects /\ "chain" \in Names /\ "network" \in Names
    BY DEF Objects, Names
  <2> QED
    BY <2>1, ReadTwoAndCheck DEF snapshotAccountContext
<1> QED
  BY <1>1, <1>2, <1>3, <1>4, <1>5

LEMMA ConfirmationSnapshot ==
    ASSUME NEW object \in {"user_request", "application_confirmation"}, NEW t \in ExportTargets
    PROVE  Snapshot(snapshotExportConfirmation(object, t),
                    {<<object, "target">>, <<t, "profile_id">>, <<object, "status">>}, {t})
<1> DEFINE A == {<<object, "target">>}
           B == {<<t, "profile_id">>}
           C == {<<object, "status">>}
<1>0. object \in Objects /\ "target" \in Names
  BY DEF Objects, Names
<1>1. Snapshot(Nested(object, "target"), A, {})
  BY <1>0, Parts
<1>2. Snapshot(snapshotExportTarget(t), B, {t})
  BY TargetSnapshot
<1>3. Snapshot(Status(object), C, {})
  BY <1>0, Parts
<1>4. /\ FieldsOf(A, {}) \cap FieldsOf(B, {t}) = {}
      /\ FieldsOf(A \cup B, {} \cup {t}) \cap FieldsOf(C, {}) = {}
  BY DEF FieldsOf, ExportTargets
<1>5. /\ A \cup B \cup C = {<<object, "target">>, <<t, "profile_id">>, <<object, "status">>}
      /\ {} \cup {t} \cup {} = {t}
  OBVIOUS
<1> HIDE DEF A, B, C
<1>6. Snapshot(Nested(object, "target") \o snapshotExportTarget(t), A \cup B, {} \cup {t})
  BY <1>1, <1>2, <1>4, Then
<1>7. Snapshot(Nested(object, "target") \o snapshotExportTarget(t) \o Status(object),
               A \cup B \cup C, {} \cup {t} \cup {})
  BY <1>3, <1>4, <1>6, Then
<1> QED
  BY <1>5, <1>7 DEF snapshotExportConfirmation

LEMMA ExportSnapshot ==
    Snapshot(Argument("request", "object") \o snapshotExportRequest,
             Required("export_mnemonic"), ExportTargets)
<1> DEFINE u == "user_request"
           c == "application_confirmation"
           tu == "user_request.target"
           tc == "application_confirmation.target"
           s1 == Nested("request", "target")
           s2 == snapshotExportTarget("target")
           s3 == Nested("request", u)
           s4 == snapshotExportConfirmation(u, tu)
           s5 == Nested("request", c)
           s6 == snapshotExportConfirmation(c, tc)
           s0 == Argument("request", "object")
           P0 == {<<"argument", "request">>}
           P1 == {<<"request", "target">>}
           P2 == {<<"target", "profile_id">>}
           P3 == {<<"request", u>>}
           P4 == {<<u, "target">>, <<tu, "profile_id">>, <<u, "status">>}
           P5 == {<<"request", c>>}
           P6 == {<<c, "target">>, <<tc, "profile_id">>, <<c, "status">>}
<1>1. /\ Snapshot(s0, P0, {}) /\ Snapshot(s1, P1, {}) /\ Snapshot(s3, P3, {})
      /\ Snapshot(s5, P5, {})
  <2>1. /\ "request" \in Objects /\ "request" \in Names /\ "target" \in Names
        /\ u \in Names /\ c \in Names
    BY DEF Objects, Names
  <2> QED
    BY <2>1, Parts
<1>2. /\ Snapshot(s2, P2, {"target"}) /\ Snapshot(s4, P4, {tu}) /\ Snapshot(s6, P6, {tc})
  <2>1. "target" \in ExportTargets /\ tu \in ExportTargets /\ tc \in ExportTargets
    BY DEF ExportTargets
  <2> QED
    BY <2>1, TargetSnapshot, ConfirmationSnapshot
<1> DEFINE P12 == P1 \cup P2
           P13 == P12 \cup P3
           P14 == P13 \cup P4
           P15 == P14 \cup P5
           P16 == P15 \cup P6
           X12 == {} \cup {"target"}
           X13 == X12 \cup {}
           X14 == X13 \cup {tu}
           X15 == X14 \cup {}
           X16 == X15 \cup {tc}
<1>3. FieldsOf(P1, {}) \cap FieldsOf(P2, {"target"}) = {}
  BY DEF FieldsOf
<1>4. FieldsOf(P12, X12) \cap FieldsOf(P3, {}) = {}
  BY DEF FieldsOf
<1>5. FieldsOf(P13, X13) \cap FieldsOf(P4, {tu}) = {}
  BY DEF FieldsOf
<1>6. FieldsOf(P14, X14) \cap FieldsOf(P5, {}) = {}
  BY DEF FieldsOf
<1>7. FieldsOf(P15, X15) \cap FieldsOf(P6, {tc}) = {}
  BY DEF FieldsOf
<1>8. FieldsOf(P0, {}) \cap FieldsOf(P16, X16) = {}
  BY DEF FieldsOf
<1>9. P0 \cup P16 = Required("export_mnemonic") /\ {} \cup X16 = ExportTargets
  BY DEF Required, ExportTargets
<1>10. snapshotExportRequest = s1 \o s2 \o s3 \o s4 \o s5 \o s6
  BY DEF snapshotExportRequest
<1> HIDE DEF s0, s1, s2, s3, s4, s5, s6, P0, P1, P2, P3, P4, P5, P6, u, c, tu, tc
<1>11. Snapshot(s1 \o s2, P12, X12)
  BY <1>1, <1>2, <1>3, Then
<1> HIDE DEF P12, X12
<1>12. Snapshot(s1 \o s2 \o s3, P13, X13)
  BY <1>1, <1>4, <1>11, Then
<1> HIDE DEF P13, X13
<1>13. Snapshot(s1 \o s2 \o s3 \o s4, P14, X14)
  BY <1>2, <1>5, <1>12, Then
<1> HIDE DEF P14, X14
<1>14. Snapshot(s1 \o s2 \o s3 \o s4 \o s5, P15, X15)
  BY <1>1, <1>6, <1>13, Then
<1> HIDE DEF P15, X15
<1>15. Snapshot(s1 \o s2 \o s3 \o s4 \o s5 \o s6, P16, X16)
  BY <1>2, <1>7, <1>14, Then
<1> HIDE DEF P16, X16
<1>16. Snapshot(s0 \o snapshotExportRequest, P0 \cup P16, {} \cup X16)
  BY <1>1, <1>8, <1>10, <1>15, Then
<1> QED
  BY <1>9, <1>16 DEF s0

LEMMA SigningSnapshot ==
    Snapshot(Argument("request", "object") \o snapshotSigningRequest, Required("sign"), {})
<1> DEFINE t == "signing_target"
           a1 == <<Read(t, "profile_id", "string"), Read(t, "key_id", "string"),
                   Check(t, "profile_id", "uuid"), Check(t, "key_id", "uuid")>>
           a2 == Nested(t, "context")
           a3 == snapshotAccountContext
           s0 == Argument("request", "object")
           s1 == Nested("request", "target")
           s3 == snapshotUint8Array("request", "payload")
           s4 == Nested("request", "approval")
           s5 == Status("approval")
           A1 == {<<t, "profile_id">>, <<t, "key_id">>}
           A2 == {<<t, "context">>}
           A3 == {<<"context", "chain">>, <<"context", "network">>}
           P0 == {<<"argument", "request">>}
           P1 == {<<"request", "target">>}
           P3 == {<<"request", "payload">>}
           P4 == {<<"request", "approval">>}
           P5 == {<<"approval", "status">>}
<1>1. /\ Snapshot(a2, A2, {}) /\ Snapshot(a3, A3, {}) /\ Snapshot(s0, P0, {})
      /\ Snapshot(s1, P1, {}) /\ Snapshot(s3, P3, {}) /\ Snapshot(s4, P4, {})
      /\ Snapshot(s5, P5, {})
  <2>1. /\ "request" \in Objects /\ "request" \in Names /\ "target" \in Names
        /\ "approval" \in Names /\ "approval" \in Objects /\ "payload" \in Names
        /\ t \in Objects /\ "context" \in Names
    BY DEF Objects, Names
  <2> QED
    BY <2>1, Parts
<1>2. Snapshot(a1, A1, {})
  <2>1. t \in Objects /\ "profile_id" \in Names /\ "key_id" \in Names
    BY DEF Objects, Names
  <2> QED
    BY <2>1, ReadTwoAndCheck
<1> DEFINE A12 == A1 \cup A2
           A13 == A12 \cup A3
           P12 == P1 \cup A13
           P13 == P12 \cup P3
           P14 == P13 \cup P4
           P15 == P14 \cup P5
<1>4. /\ A1 \cap A2 = {} /\ A12 \cap A3 = {} /\ P1 \cap A13 = {} /\ P12 \cap P3 = {}
      /\ P13 \cap P4 = {} /\ P14 \cap P5 = {} /\ P0 \cap P15 = {}
  OBVIOUS
<1>5. P0 \cup P15 = Required("sign")
  BY DEF Required
<1>6. snapshotSigningRequest = s1 \o (a1 \o a2 \o a3) \o s3 \o s4 \o s5
  BY DEF snapshotSigningRequest, snapshotSigningTarget
<1> HIDE DEF a1, a2, a3, s0, s1, s3, s4, s5, A1, A2, A3, P0, P1, P3, P4, P5, t
<1>8. Snapshot(a1 \o a2, A12, {})
  BY <1>1, <1>2, <1>4, ThenPlain
<1> HIDE DEF A12
<1>9. Snapshot(a1 \o a2 \o a3, A13, {})
  BY <1>1, <1>4, <1>8, ThenPlain
<1> HIDE DEF A13
<1>10. Snapshot(s1 \o (a1 \o a2 \o a3), P12, {})
  BY <1>1, <1>4, <1>9, ThenPlain
<1> HIDE DEF P12
<1>11. Snapshot(s1 \o (a1 \o a2 \o a3) \o s3, P13, {})
  BY <1>1, <1>4, <1>10, ThenPlain
<1> HIDE DEF P13
<1>12. Snapshot(s1 \o (a1 \o a2 \o a3) \o s3 \o s4, P14, {})
  BY <1>1, <1>4, <1>11, ThenPlain
<1> HIDE DEF P14
<1>13. Snapshot(s1 \o (a1 \o a2 \o a3) \o s3 \o s4 \o s5, P15, {})
  BY <1>1, <1>4, <1>12, ThenPlain
<1> HIDE DEF P15
<1>14. Snapshot(s0 \o snapshotSigningRequest, P0 \cup P15, {})
  BY <1>1, <1>4, <1>6, <1>13, ThenPlain
<1> QED
  BY <1>5, <1>14 DEF s0

LEMMA ArgumentsSnapshot ==
    ASSUME NEW o \in OPERATION_NAMES \ {"export_mnemonic", "export_private_key", "sign"}
    PROVE  Snapshot(Inputs(o), Required(o), {})
<1> DEFINE P(name) == {<<"argument", name>>}
           profile == Argument("profileId", "uuid")
           key == Argument("keyId", "uuid")
           chain == Argument("chain", "number")
           index == Argument("accountIndex", "index")
           network == Argument("network", "number")
           context == Argument("context", "object")
           K == {<<"context", "chain">>, <<"context", "network">>}
<1>1. /\ Snapshot(profile, P("profileId"), {}) /\ Snapshot(key, P("keyId"), {})
      /\ Snapshot(chain, P("chain"), {}) /\ Snapshot(index, P("accountIndex"), {})
      /\ Snapshot(network, P("network"), {}) /\ Snapshot(context, P("context"), {})
      /\ Snapshot(snapshotAccountContext, K, {})
  <2>1. {"profileId", "keyId", "chain", "accountIndex", "network", "context"} \subseteq Names
    BY DEF Names
  <2> QED
    BY <2>1, Parts
<1> DEFINE PC == P("profileId") \cup P("chain")
           PCI == PC \cup P("accountIndex")
           PK == P("profileId") \cup P("keyId")
           PKX == PK \cup P("context")
           PKXK == PKX \cup K
<1>3. /\ P("profileId") \cap P("chain") = {} /\ PC \cap P("accountIndex") = {}
      /\ P("profileId") \cap P("keyId") = {} /\ PK \cap P("context") = {} /\ PKX \cap K = {}
  OBVIOUS
<1>4. /\ o \in {"prepare_generated_profile", "restore_profile"} =>
            Inputs(o) = network /\ Required(o) = P("network")
      /\ o \in {"list_software_keys", "change_profile_password", "delete_profile"} =>
            Inputs(o) = profile /\ Required(o) = P("profileId")
      /\ o = "derive_software_key" => Inputs(o) = profile \o chain \o index /\ Required(o) = PCI
      /\ o \in {"import_software_key", "generate_software_key"} =>
            Inputs(o) = profile \o chain /\ Required(o) = PC
      /\ o = "get_public_account" =>
            Inputs(o) = profile \o key \o context \o snapshotAccountContext
            /\ Required(o) = PKXK
      /\ o = "delete_software_key" => Inputs(o) = profile \o key /\ Required(o) = PK
      /\ o \in {"create_empty_store", "finalize_generated_profile", "list_profiles"} =>
            Inputs(o) = <<>> /\ Required(o) = {}
  <2> HIDE DEF profile, key, chain, index, network, context
  <2>1. /\ o \in {"prepare_generated_profile", "restore_profile"} => Required(o) = P("network")
        /\ o \in {"list_software_keys", "change_profile_password", "delete_profile"} =>
              Required(o) = P("profileId")
        /\ o = "derive_software_key" => Required(o) = PCI
        /\ o \in {"import_software_key", "generate_software_key"} => Required(o) = PC
        /\ o = "get_public_account" => Required(o) = PKXK
        /\ o = "delete_software_key" => Required(o) = PK
        /\ o \in {"create_empty_store", "finalize_generated_profile", "list_profiles"} =>
              Required(o) = {}
    BY DEF Required
  <2> HIDE DEF P, PC, PCI, PK, PKX, PKXK
  <2> QED
    BY <2>1 DEF Inputs, profile, key, chain, index, network, context
<1> HIDE DEF P, profile, key, chain, index, network, context, K
<1>5. Snapshot(profile \o chain, PC, {}) /\ Snapshot(profile \o key, PK, {})
  BY <1>1, <1>3, ThenPlain
<1> HIDE DEF PC, PK
<1>6. Snapshot(profile \o chain \o index, PCI, {}) /\ Snapshot(profile \o key \o context, PKX, {})
  BY <1>1, <1>3, <1>5, ThenPlain
<1> HIDE DEF PCI, PKX
<1>7. Snapshot(profile \o key \o context \o snapshotAccountContext, PKXK, {})
  BY <1>1, <1>3, <1>6, ThenPlain
<1> HIDE DEF PKXK
<1> QED
  BY <1>1, <1>4, <1>5, <1>6, <1>7, NoSteps DEF OPERATION_NAMES

LEMMA InputSnapshot ==
    ASSUME NEW o \in OPERATION_NAMES
    PROVE  /\ Snapshot(Inputs(o), Required(o), Targets(o))
           /\ Len(Inputs(o)) \in Nat
           /\ \A i \in 1 .. Len(Inputs(o)) : Inputs(o)[i] \in Steps
<1>1. Snapshot(Inputs(o), Required(o), Targets(o))
  <2>1. CASE o \in {"export_mnemonic", "export_private_key"}
    <3>1. /\ Inputs(o) = Argument("request", "object") \o snapshotExportRequest
          /\ Targets(o) = ExportTargets
      BY <2>1 DEF Inputs, Targets
    <3>2. Required(o) = Required("export_mnemonic")
      BY <2>1 DEF Required
    <3> QED
      BY <3>1, <3>2, ExportSnapshot
  <2>2. CASE o = "sign"
    <3>1. /\ Inputs(o) = Argument("request", "object") \o snapshotSigningRequest
          /\ Targets(o) = {}
      BY <2>2 DEF Inputs, Targets
    <3> QED
      BY <2>2, <3>1, SigningSnapshot
  <2>3. CASE o \notin {"export_mnemonic", "export_private_key", "sign"}
    BY <2>3, ArgumentsSnapshot DEF Targets
  <2> QED
    BY <2>1, <2>2, <2>3
<1>2. Inputs(o) \in Seq(Steps)
  BY <1>1 DEF Snapshot
<1> QED
  BY <1>1, <1>2

(* The byte arguments are none of the fields that are read. *)
LEMMA BytesApart ==
    ASSUME NEW o \in OPERATION_NAMES
    PROVE  /\ Bytes(o) \subseteq Fields
           /\ FieldsOf(Required(o), Targets(o)) \subseteq Fields
           /\ Bytes(o) \cap FieldsOf(Required(o), Targets(o)) = {}
<1>1. /\ \A f \in Bytes(o) : f[1] = "bytes"
      /\ Bytes(o) \subseteq Fields
  <2>1. "bytes" \in Objects
    BY DEF Objects
  <2>2. Bytes(o) \subseteq {"bytes"} \X Names
    BY DEF Bytes, Names, OPERATION_NAMES
  <2> QED
    BY <2>1, <2>2 DEF Fields
<1>2. Snapshot(Inputs(o), Required(o), Targets(o)) /\ Len(Inputs(o)) \in Nat
      /\ \A i \in 1 .. Len(Inputs(o)) : Inputs(o)[i] \in Steps
  BY InputSnapshot
<1>3. FieldsOf(Required(o), Targets(o)) \subseteq Fields
  BY <1>2 DEF Snapshot, Covers, Steps
<1>4. \A f \in FieldsOf(Required(o), Targets(o)) : f[1] # "bytes"
  BY DEF FieldsOf, Required, Targets, ExportTargets, OPERATION_NAMES
<1> QED
  BY <1>1, <1>3, <1>4

-----------------------------------------------------------------------------
(* The reads of a result *)

SecretNames == {"mnemonic_utf8", "pending_profile", "private_key"}
OutputNames == {"store", "value", "warnings"} \cup SecretNames
OutputSteps == {"read", "obtain", "copy"} \X OutputNames

LEMMA SecretFieldsType ==
    ASSUME NEW o
    PROVE  SecretFields(o) \in Seq(SecretNames) /\ Secrets(o) \subseteq SecretNames
<1>1. SecretFields(o) \in {<<"mnemonic_utf8", "pending_profile">>, <<"mnemonic_utf8">>,
                           <<"private_key">>, <<>>}
  BY DEF SecretFields
<1>2. <<"mnemonic_utf8", "pending_profile">> \in Seq(SecretNames)
  BY DEF SecretNames
<1>3. <<"mnemonic_utf8">> \in Seq(SecretNames)
  BY DEF SecretNames
<1>4. <<"private_key">> \in Seq(SecretNames)
  BY DEF SecretNames
<1>5. <<>> \in Seq(SecretNames)
  OBVIOUS
<1>6. SecretFields(o) \in Seq(SecretNames)
  BY <1>1, <1>2, <1>3, <1>4, <1>5, Zenon
<1> QED
  BY <1>6 DEF Secrets

LEMMA EachType ==
    ASSUME NEW step \in {"read", "obtain", "copy"}, NEW fields \in Seq(OutputNames)
    PROVE  /\ Each(step, fields) \in Seq(OutputSteps)
           /\ Len(Each(step, fields)) = Len(fields)
           /\ \A i \in 1 .. Len(fields) : Each(step, fields)[i] = <<step, fields[i]>>
<1>1. Len(fields) \in Nat /\ DOMAIN fields = 1 .. Len(fields)
  OBVIOUS
<1>2. \A i \in 1 .. Len(fields) : <<step, fields[i]>> \in OutputSteps
  BY DEF OutputSteps
<1> DEFINE F(i) == <<step, fields[i]>>
<1>3. Each(step, fields) = [i \in 1 .. Len(fields) |-> F(i)]
  BY <1>1 DEF Each
<1>4. \A i \in 1 .. Len(fields) : F(i) \in OutputSteps
  BY <1>2
<1> HIDE DEF F
<1>5. /\ Each(step, fields) \in Seq(OutputSteps)
      /\ Len(Each(step, fields)) = Len(fields)
      /\ \A i \in 1 .. Len(fields) : Each(step, fields)[i] = F(i)
  BY <1>1, <1>3, <1>4
<1> QED
  BY <1>5 DEF F

LEMMA ReadsType ==
    ASSUME NEW names \in Seq(OutputNames)
    PROVE  /\ Reads(names) \in Seq(OutputSteps)
           /\ Len(Reads(names)) = Len(names)
           /\ \A i \in 1 .. Len(names) : Reads(names)[i] = <<"read", names[i]>>
<1>1. Reads(names) = Each("read", names)
  BY DEF Reads, Each
<1> QED
  BY <1>1, EachType

LEMMA SecretResult ==
    ASSUME NEW fields \in Seq(SecretNames)
    PROVE  /\ outputSecretReadResult(fields) \in Seq(OutputSteps)
           /\ Len(outputSecretReadResult(fields)) = 2 * Len(fields) + 2
           /\ outputSecretReadResult(fields)[1][1] = "read"
           /\ outputSecretReadResult(fields)[Len(fields) + 2][1] = "read"
           /\ \A i \in 1 .. Len(fields) :
                /\ outputSecretReadResult(fields)[i + 1] = <<"obtain", fields[i]>>
                /\ outputSecretReadResult(fields)[i + Len(fields) + 2] = <<"copy", fields[i]>>
<1> DEFINE n == Len(fields)
           a == Reads(<<"value">>)
           b == Each("obtain", fields)
           c == Reads(<<"warnings">>)
           d == Each("copy", fields)
<1>1. n \in Nat
  OBVIOUS
<1>0. fields \in Seq(OutputNames)
  BY DEF OutputNames
<1>2. \A name \in OutputNames :
        /\ Reads(<<name>>) \in Seq(OutputSteps) /\ Len(Reads(<<name>>)) = 1
        /\ Reads(<<name>>)[1] = <<"read", name>>
  <2> TAKE name \in OutputNames
  <2> DEFINE names == <<name>>
  <2>1. names \in Seq(OutputNames)
    OBVIOUS
  <2>2. Len(names) = 1 /\ names[1] = name
    OBVIOUS
  <2> HIDE DEF names
  <2>3. /\ Reads(names) \in Seq(OutputSteps) /\ Len(Reads(names)) = 1
        /\ Reads(names)[1] = <<"read", name>>
    BY <2>1, <2>2, ReadsType
  <2> QED
    BY <2>3 DEF names
<1>3. a \in Seq(OutputSteps) /\ Len(a) = 1 /\ a[1] = <<"read", "value">>
  BY <1>2 DEF OutputNames
<1>4. c \in Seq(OutputSteps) /\ Len(c) = 1 /\ c[1] = <<"read", "warnings">>
  BY <1>2 DEF OutputNames
<1>5. b \in Seq(OutputSteps) /\ Len(b) = n /\ \A i \in 1 .. n : b[i] = <<"obtain", fields[i]>>
  BY <1>0, EachType
<1>6. d \in Seq(OutputSteps) /\ Len(d) = n /\ \A i \in 1 .. n : d[i] = <<"copy", fields[i]>>
  BY <1>0, EachType
<1>7. outputSecretReadResult(fields) = ((a \o b) \o c) \o d
  BY DEF outputSecretReadResult
<1>8. a[1][1] = "read" /\ c[1][1] = "read"
  BY <1>3, <1>4
<1> HIDE DEF n, a, b, c, d
<1> DEFINE ab == a \o b
           abc == ab \o c
           abcd == abc \o d
<1>9. /\ ab \in Seq(OutputSteps) /\ Len(ab) = n + 1 /\ ab[1] = a[1]
      /\ \A i \in 1 .. n : ab[i + 1] = b[i]
  <2>1. /\ ab \in Seq(OutputSteps) /\ Len(ab) = Len(a) + Len(b)
        /\ \A i \in 1 .. Len(a) : ab[i] = a[i]
        /\ \A i \in 1 .. Len(b) : ab[Len(a) + i] = b[i]
    BY <1>3, <1>5, Concatenation
  <2> HIDE DEF ab
  <2>2. \A i \in 1 .. n : i + 1 = 1 + i
    BY <1>1
  <2> QED
    BY <1>1, <1>3, <1>5, <2>1, <2>2
<1> HIDE DEF ab
<1>10. /\ abc \in Seq(OutputSteps) /\ Len(abc) = n + 2
       /\ \A i \in 1 .. n + 1 : abc[i] = ab[i]
       /\ abc[n + 2] = c[1]
  <2>1. /\ abc \in Seq(OutputSteps) /\ Len(abc) = Len(ab) + Len(c)
        /\ \A i \in 1 .. Len(ab) : abc[i] = ab[i]
        /\ \A i \in 1 .. Len(c) : abc[Len(ab) + i] = c[i]
    <3>1. ab \in Seq(OutputSteps) /\ c \in Seq(OutputSteps)
      BY <1>4, <1>9
    <3> QED
      BY <3>1, Concatenation
  <2> HIDE DEF abc
  <2>2. 1 \in 1 .. Len(c) /\ Len(ab) + 1 = n + 2
    BY <1>1, <1>4, <1>9
  <2> QED
    BY <1>1, <1>4, <1>9, <2>1, <2>2
<1> HIDE DEF abc
<1>11. /\ abcd \in Seq(OutputSteps) /\ Len(abcd) = 2 * n + 2
       /\ \A i \in 1 .. n + 2 : abcd[i] = abc[i]
       /\ \A i \in 1 .. n : abcd[(n + 2) + i] = d[i]
  <2>1. /\ abcd \in Seq(OutputSteps) /\ Len(abcd) = Len(abc) + Len(d)
        /\ \A i \in 1 .. Len(abc) : abcd[i] = abc[i]
        /\ \A i \in 1 .. Len(d) : abcd[Len(abc) + i] = d[i]
    <3>1. abc \in Seq(OutputSteps) /\ d \in Seq(OutputSteps)
      BY <1>6, <1>10
    <3> QED
      BY <3>1, Concatenation
  <2> HIDE DEF abcd
  <2> QED
    BY <1>1, <1>6, <1>10, <2>1
<1> HIDE DEF abcd
<1>12. abcd[1][1] = "read" /\ abcd[n + 2][1] = "read"
  <2>1. abcd[1] = a[1] /\ abcd[n + 2] = c[1]
    BY <1>1, <1>9, <1>10, <1>11
  <2> QED
    BY <2>1, <1>8
<1>13. \A i \in 1 .. n : abcd[i + 1] = <<"obtain", fields[i]>>
  <2> TAKE i \in 1 .. n
  <2>1. i + 1 \in 1 .. n + 1 /\ i + 1 \in 1 .. n + 2
    BY <1>1
  <2>2. abcd[i + 1] = ab[i + 1]
    BY <2>1, <1>10, <1>11
  <2> QED
    BY <2>2, <1>9, <1>5
<1>14. \A i \in 1 .. n : abcd[i + n + 2] = <<"copy", fields[i]>>
  <2> TAKE i \in 1 .. n
  <2>1. i + n + 2 = (n + 2) + i
    BY <1>1
  <2> QED
    BY <2>1, <1>11, <1>6
<1> QED
  BY <1>7, <1>11, <1>12, <1>13, <1>14 DEF n, ab, abc, abcd

(* What every result's reads have in common: they are a sequence, only secret fields are   *)
(* obtained and copied, and each of them is.                                                *)
OutputsCover(o) ==
    /\ Outputs(o) \in Seq(OutputSteps)
    /\ \A i \in 1 .. Len(Outputs(o)) :
          Outputs(o)[i][1] \in {"obtain", "copy"} => Outputs(o)[i][2] \in Secrets(o)
    /\ \A f \in Secrets(o) :
          /\ \E i \in 1 .. Len(Outputs(o)) : Outputs(o)[i] = <<"obtain", f>>
          /\ \E i \in 1 .. Len(Outputs(o)) : Outputs(o)[i] = <<"copy", f>>

LEMMA OutputReads ==
    ASSUME NEW o \in OPERATION_NAMES
    PROVE  OutputsCover(o)
<1> DEFINE WithSecrets == {"prepare_generated_profile", "export_mnemonic", "export_private_key"}
<1>1. CASE o \in WithSecrets
  <2> DEFINE fields == SecretFields(o)
             n == Len(fields)
             out == outputSecretReadResult(fields)
  <2>1. Outputs(o) = out
    BY <1>1 DEF Outputs
  <2>2. fields \in Seq(SecretNames) /\ n \in Nat /\ DOMAIN fields = 1 .. n
    BY SecretFieldsType
  <2>3. \A i \in 1 .. n : fields[i] \in Secrets(o)
    BY <2>2 DEF Secrets
  <2>4. \A f \in Secrets(o) : \E i \in 1 .. n : fields[i] = f
    BY <2>2 DEF Secrets
  <2> HIDE DEF fields
  <2>5. /\ out \in Seq(OutputSteps)
        /\ Len(out) = 2 * n + 2
        /\ out[1][1] = "read"
        /\ out[n + 2][1] = "read"
        /\ \A i \in 1 .. n : /\ out[i + 1] = <<"obtain", fields[i]>>
                             /\ out[i + n + 2] = <<"copy", fields[i]>>
    BY <2>2, SecretResult
  <2> HIDE DEF n, out
  <2>6. \A i \in 1 .. Len(out) : out[i][1] \in {"obtain", "copy"} => out[i][2] \in Secrets(o)
    <3> SUFFICES ASSUME NEW i \in 1 .. Len(out), out[i][1] \in {"obtain", "copy"}
                 PROVE  out[i][2] \in Secrets(o)
      OBVIOUS
    <3>1. i # 1 /\ i # n + 2
      BY <2>5
    <3>2. CASE i <= n + 1
      <4> DEFINE k == i - 1
      <4>1. k \in 1 .. n /\ i = k + 1
        BY <2>2, <3>1, <3>2, <2>5
      <4> HIDE DEF k
      <4>2. out[i] = <<"obtain", fields[k]>>
        BY <4>1, <2>5
      <4> QED
        BY <4>1, <4>2, <2>3
    <3>3. CASE i > n + 2
      <4> DEFINE k == i - n - 2
      <4>1. k \in 1 .. n /\ i = k + n + 2
        BY <2>2, <3>3, <2>5
      <4> HIDE DEF k
      <4>2. out[i] = <<"copy", fields[k]>>
        BY <4>1, <2>5
      <4> QED
        BY <4>1, <4>2, <2>3
    <3> QED
      BY <2>2, <3>1, <3>2, <3>3
  <2>7. ASSUME NEW f \in Secrets(o)
        PROVE  /\ \E i \in 1 .. Len(out) : out[i] = <<"obtain", f>>
               /\ \E i \in 1 .. Len(out) : out[i] = <<"copy", f>>
    <3>1. PICK k \in 1 .. n : fields[k] = f
      BY <2>4
    <3>2. k + 1 \in 1 .. Len(out) /\ k + n + 2 \in 1 .. Len(out)
      BY <2>2, <2>5
    <3>3. out[k + 1] = <<"obtain", f>> /\ out[k + n + 2] = <<"copy", f>>
      BY <3>1, <2>5
    <3> QED
      BY <3>2, <3>3
  <2> QED
    BY <2>1, <2>5, <2>6, <2>7 DEF OutputsCover
<1>2. CASE o \notin WithSecrets
  <2> DEFINE A == <<"store">>
             B == <<"value", "warnings">>
             C == <<"store", "value", "warnings">>
  <2>1. A \in Seq(OutputNames) /\ B \in Seq(OutputNames) /\ C \in Seq(OutputNames)
    BY DEF OutputNames
  <2> HIDE DEF A, B, C
  <2>2. Outputs(o) \in {Reads(A), Reads(B), Reads(C)}
    BY <1>2 DEF Outputs, OPERATION_NAMES, outputReadResult, outputMutationResult, A, B, C
  <2>3. PICK names \in Seq(OutputNames) : Outputs(o) = Reads(names)
    BY <2>1, <2>2
  <2>4. /\ Outputs(o) \in Seq(OutputSteps)
        /\ \A i \in 1 .. Len(Outputs(o)) : Outputs(o)[i][1] = "read"
    BY <2>3, ReadsType
  <2>5. Secrets(o) = {}
    BY <1>2 DEF Secrets, SecretFields
  <2> QED
    BY <2>4, <2>5 DEF OutputsCover
<1> QED
  BY <1>1, <1>2

-----------------------------------------------------------------------------
(* Errors *)

LEMMA NormalIsCode ==
    ASSUME NEW candidates, DOMAIN candidates \subseteq 1 .. 2
    PROVE  normalizeOperationError(candidates) \in CORE_ERROR_CODES
<1> DEFINE known == {i \in DOMAIN candidates : candidates[i] \in CORE_ERROR_CODES}
           first == CHOOSE i \in known : \A k \in known : i <= k
<1>1. CASE known = {}
  <2>1. "BindingFailure" \in CORE_ERROR_CODES
    BY DEF CORE_ERROR_CODES
  <2> QED
    BY <1>1, <2>1 DEF normalizeOperationError
<1>2. CASE known # {}
  <2>1. \E i \in known : \A k \in known : i <= k
    <3>1. CASE 1 \in known
      BY <3>1
    <3>2. CASE 1 \notin known
      <4>1. known = {2}
        BY <1>2, <3>2
      <4> QED
        BY <4>1
    <3> QED
      BY <3>1, <3>2
  <2> HIDE DEF known
  <2>2. first \in known
    BY <2>1
  <2>3. candidates[first] \in CORE_ERROR_CODES
    BY <2>2 DEF known
  <2> QED
    BY <1>2, <2>3 DEF normalizeOperationError, known
<1> QED
  BY <1>1, <1>2

(* The facade above sees the code twice, as code and as message. *)
LEMMA NormalizedTwice ==
    ASSUME NEW code \in CORE_ERROR_CODES
    PROVE  normalizeOperationError(<<code, code>>) = code
<1> DEFINE candidates == <<code, code>>
           known == {i \in DOMAIN candidates : candidates[i] \in CORE_ERROR_CODES}
           first == CHOOSE i \in known : \A k \in known : i <= k
<1>1. DOMAIN candidates = 1 .. 2 /\ candidates[1] = code /\ candidates[2] = code
  OBVIOUS
<1>2. known = 1 .. 2
  <2> HIDE DEF candidates
  <2> QED
    BY <1>1
<1>3. \E i \in 1 .. 2 : \A k \in 1 .. 2 : i <= k
  OBVIOUS
<1> HIDE DEF candidates
<1>4. first \in 1 .. 2
  BY <1>2, <1>3
<1>5. candidates[first] = code
  BY <1>1, <1>4
<1> HIDE DEF first, known
<1> QED
  BY <1>2, <1>5 DEF normalizeOperationError, candidates, first, known

LEMMA BackendErrorsAreShort ==
    ASSUME NEW candidates \in BackendErrors
    PROVE  DOMAIN candidates \subseteq 1 .. 2
BY DEF BackendErrors

-----------------------------------------------------------------------------
(* The inductive invariant *)

(* Where the call is. *)
CallInv ==
    /\ phase \in {"idle", "input", "backend", "output", "unwind", "done"}
    /\ phase # "idle" => op \in OPERATION_NAMES
    /\ layer \in 0 .. Depth
    /\ layer = 0 <=> phase = "backend"
    /\ phase \in {"idle", "done"} => layer = Depth
    /\ pos \in Nat \ {0}
    /\ phase \in {"idle", "backend"} => pos = 1

(* Arguments that a facade has checked: well formed, and acceptable to another facade. *)
Checked(o, values) ==
    /\ WellFormed(o, values)
    /\ \A i \in 1 .. Len(Inputs(o)) : Accepts(Inputs(o)[i], values)

(* The steps before `pos' have accepted what was read, which an inner layer has from the   *)
(* layer above and which is checked; nothing else is in the snapshot.                       *)
HasRead(f) == \E i \in 1 .. pos - 1 : Inputs(op)[i].do = "read" /\ Inputs(op)[i].field = f

LayerInv ==
    /\ pos <= Len(Inputs(op)) + 1
    /\ \A f \in Bytes(op) : given[layer][f] = "caller"
    /\ \A i \in 1 .. pos - 1 : Accepts(Inputs(op)[i], snapshot)
    /\ \A f \in Fields : ~HasRead(f) => snapshot[f] = "absent"
    /\ layer < Depth =>
          /\ Checked(op, given[layer])
          /\ given[layer] = given[Depth - 1]
          /\ \A f \in Fields : HasRead(f) => snapshot[f] = given[layer][f]

ReadInv ==
    /\ given \in [0 .. Depth -> [Fields -> Values \cup {"caller"}]]
    /\ snapshot \in [Fields -> Values \cup {"caller"}]
    /\ phase = "idle" => snapshot = Nothing
    /\ phase = "input" => LayerInv
    /\ phase \in {"backend", "output"} => Checked(op, given[0])
    /\ phase # "input" \/ layer = Depth => given[0] = given[Depth - 1]

(* An error on its way up is the code of what was thrown. *)
ErrorInv ==
    phase = "unwind" \/ (phase = "done" /\ outcome # "ok") =>
        outcome \in CORE_ERROR_CODES /\ outcome = normalizeOperationError(thrown)

(* The layer whose payload is the lowest that may still hold the caller's bytes. *)
LowestPayload == IF phase \in {"unwind", "done"} THEN layer + 1 ELSE layer

(* Where secret bytes may be. *)
Exposed(a) ==
    \/ a = CallerPayload
    \/ a[1] = "payload" /\ a[2] >= LowestPayload /\ a[2] <= Depth
    \/ a[2] = 0 /\ a \notin sources
    \/ phase = "output" /\ (a \in copies \/ (a[1] \in Secrets(op) /\ a[2] = layer - 1))
    \/ phase = "done" /\ outcome = "ok" /\ a \in Returned

(* The arrays a layer has got from below and made are where its position says. *)
ArrayInv ==
    /\ heap \in [Arrays -> Contents]
    /\ heap[CallerPayload] = "secret"
    /\ \A a \in Arrays : heap[a] \in Secret => Exposed(a)
    /\ \A a \in sources : a[1] \in Secrets(op) /\ a[2] \in 0 .. layer - 1
    /\ \A a \in copies : phase = "output" /\ a[1] \in Secrets(op) /\ a[2] = layer
    /\ phase \in {"idle", "input", "backend"} => sources = {}

(* What a layer that reads a result has done, and what it reads. *)
OutputInv ==
    /\ phase = "output" =>
          /\ pos <= Len(Outputs(op)) + 1
          /\ \A i \in 1 .. pos - 1 :
                /\ Outputs(op)[i][1] = "obtain" =>
                      Array(Outputs(op)[i][2], layer - 1) \in sources
                /\ Outputs(op)[i][1] = "copy" =>
                      Array(Outputs(op)[i][2], layer) \in copies
          /\ \A f \in Secrets(op) :
                /\ heap[Array(f, layer - 1)] # "zero"
                /\ layer > 1 => outputBytes(f, heap[Array(f, layer - 1)])
                /\ Array(f, layer) \in copies =>
                      heap[Array(f, layer)] # "zero" /\ outputBytes(f, heap[Array(f, layer)])
    /\ phase = "done" /\ outcome = "ok" => \A a \in Returned : heap[a] \in Secret

Inv == CallInv /\ ReadInv /\ ErrorInv /\ ArrayInv /\ OutputInv

-----------------------------------------------------------------------------
(* Where the call is and what it has read *)

LEMMA CallStep ==
    ASSUME CallInv, [Next]_vars
    PROVE  CallInv'
<1> USE FacadeAssumption DEF CallInv
<1>1. CASE \E o \in Operations : Call(o)
  BY <1>1 DEF Call
<1>2. CASE ReadInput \/ CheckInput
  <2>1. /\ phase = "input" /\ UNCHANGED <<op, layer>>
        /\ \/ phase' = phase /\ pos' = pos + 1
           \/ phase' = "unwind" /\ pos' = pos
    BY <1>2 DEF ReadInput, CheckInput, Throw
  <2> QED
    BY <2>1
<1>3. CASE PassDown
  BY <1>3 DEF PassDown
<1>4. CASE BackendReturns
  BY <1>4 DEF BackendReturns
<1>5. CASE BackendThrows
  BY <1>5 DEF BackendThrows
<1>6. CASE ReadOutput
  BY <1>6 DEF ReadOutput, Throw
<1>7. CASE ObtainSecret
  BY <1>7 DEF ObtainSecret, Throw
<1>8. CASE CopySecret
  BY <1>8 DEF CopySecret, Throw
<1>9. CASE Return
  BY <1>9 DEF Return
<1>10. CASE Unwind
  BY <1>10 DEF Unwind
<1>11. CASE UNCHANGED vars
  BY <1>11 DEF vars
<1> QED
  BY <1>1, <1>2, <1>3, <1>4, <1>5, <1>6, <1>7, <1>8, <1>9, <1>10, <1>11 DEF Next, Step, Ended

(* What a step accepts depends on the fields it uses only. *)
LEMMA AcceptsLocally ==
    ASSUME NEW step \in Steps, NEW v, NEW w, \A f \in Uses(step) : v[f] = w[f],
           Accepts(step, v)
    PROVE  Accepts(step, w)
<1>1. v[step.field] = w[step.field]
  BY DEF Uses
<1>2. CASE step.do = "read"
  BY <1>1, <1>2 DEF Accepts
<1>3. CASE step.do # "read"
  <2>1. step.do = "check"
    BY <1>3 DEF Steps
  <2>2. step.as = "key" => v[<<step.field[1], "kind">>] = w[<<step.field[1], "kind">>]
    BY <2>1 DEF Uses
  <2>3. Allowed(step, v)
    BY <1>3 DEF Accepts, validate
  <2>4. Allowed(step, w)
    BY <1>1, <2>2, <2>3 DEF Allowed
  <2> QED
    BY <1>3, <2>4 DEF Accepts, validate
<1> QED
  BY <1>2, <1>3

(* A layer that has made all its steps passes on checked arguments, an inner layer the     *)
(* ones it was given.                                                                       *)
LEMMA PassesChecked ==
    ASSUME CallInv, ReadInv, phase = "input", pos > Len(Inputs(op))
    PROVE  /\ PassedDown \in [Fields -> Values \cup {"caller"}]
           /\ Checked(op, PassedDown)
           /\ layer < Depth => PassedDown = given[layer]
<1> DEFINE n == Len(Inputs(op))
           fields == FieldsOf(Required(op), Targets(op))
<1>1. /\ op \in OPERATION_NAMES /\ layer \in 1 .. Depth /\ LayerInv /\ pos \in Nat
  BY FacadeAssumption DEF CallInv, ReadInv
<1>2. /\ n \in Nat /\ Snapshot(Inputs(op), Required(op), Targets(op))
      /\ \A i \in 1 .. n : Inputs(op)[i] \in Steps
  BY <1>1, InputSnapshot
<1>3. pos - 1 = n
  BY <1>1, <1>2 DEF LayerInv
<1>4. /\ \A i \in 1 .. n : Accepts(Inputs(op)[i], snapshot)
      /\ \A i \in 1 .. n : Uses(Inputs(op)[i]) \subseteq fields
      /\ \A f \in fields : HasRead(f)
  BY <1>1, <1>2, <1>3 DEF LayerInv, Snapshot, Covers, HasRead
<1>5. \A f \in Fields : HasRead(f) => f \in fields
  <2> SUFFICES ASSUME NEW f \in Fields, HasRead(f)
               PROVE  f \in fields
    OBVIOUS
  <2>1. PICK i \in 1 .. n : Inputs(op)[i].field = f
    BY <1>3 DEF HasRead
  <2>2. f \in Uses(Inputs(op)[i])
    BY <2>1 DEF Uses
  <2> QED
    BY <1>4, <2>2
<1>6. Good(Required(op), Targets(op), snapshot)
  BY <1>2, <1>4 DEF Snapshot, Allows
<1>7. /\ Bytes(op) \subseteq Fields /\ Bytes(op) \cap fields = {} /\ fields \subseteq Fields
  BY <1>1, BytesApart
<1>8. PassedDown \in [Fields -> Values \cup {"caller"}]
  <2>1. given[layer] \in [Fields -> Values \cup {"caller"}]
    BY <1>1 DEF ReadInv
  <2> QED
    BY <2>1 DEF PassedDown, ReadInv
<1>9. /\ \A f \in Bytes(op) : PassedDown[f] = "caller"
      /\ \A f \in Fields \ Bytes(op) : PassedDown[f] = snapshot[f]
      /\ \A f \in fields : PassedDown[f] = snapshot[f]
  BY <1>1, <1>7 DEF PassedDown, LayerInv
<1>10. WellFormed(op, PassedDown)
  <2>1. \A f \in Required(op) : PassedDown[f] = "good"
    BY <1>6, <1>9 DEF Good, FieldsOf
  <2>2. \A t \in Targets(op) :
          <<PassedDown[<<t, "kind">>], PassedDown[<<t, "key_id">>]>>
            \in {<<"mnemonic", "absent">>, <<"software_key", "good">>}
    <3> TAKE t \in Targets(op)
    <3>1. <<t, "kind">> \in fields /\ <<t, "key_id">> \in fields
      BY DEF FieldsOf
    <3> QED
      BY <1>6, <1>9, <3>1 DEF Good
  <2>3. \A f \in Fields \ (Bytes(op) \cup fields) : PassedDown[f] = "absent"
    BY <1>1, <1>5, <1>9 DEF LayerInv
  <2> QED
    BY <1>9, <2>1, <2>2, <2>3 DEF WellFormed, FieldsOf
<1>11. \A i \in 1 .. n : Accepts(Inputs(op)[i], PassedDown)
  <2> TAKE i \in 1 .. n
  <2>1. \A f \in Uses(Inputs(op)[i]) : snapshot[f] = PassedDown[f]
    BY <1>4, <1>9
  <2> QED
    BY <1>2, <1>4, <2>1, AcceptsLocally
<1>12. ASSUME layer < Depth
       PROVE  PassedDown = given[layer]
  <2>1. \A f \in fields : snapshot[f] = given[layer][f]
    BY <1>1, <1>4, <1>7, <1>12 DEF LayerInv
  <2>2. \A f \in Fields \ (Bytes(op) \cup fields) : PassedDown[f] = given[layer][f]
    <3>1. \A f \in Fields \ (Bytes(op) \cup fields) : given[layer][f] = "absent"
      BY <1>1, <1>12 DEF LayerInv, Checked, WellFormed, FieldsOf
    <3> QED
      BY <1>10, <3>1 DEF WellFormed, FieldsOf
  <2>3. \A f \in Fields : PassedDown[f] = given[layer][f]
    BY <1>1, <1>9, <2>1, <2>2 DEF LayerInv
  <2>4. given[layer] \in [Fields -> Values \cup {"caller"}]
    BY <1>1 DEF ReadInv
  <2> QED
    BY <1>8, <2>3, <2>4
<1> QED
  BY <1>8, <1>10, <1>11, <1>12 DEF Checked

(* An inner layer's next step accepts what it is given. *)
LEMMA InnerAccepts ==
    ASSUME CallInv, ReadInv, phase = "input", layer < Depth, pos <= Len(Inputs(op))
    PROVE  LET step == Inputs(op)[pos] IN
           /\ step.do = "read" => dtoField(step.as, given[layer][step.field]) = "ok"
           /\ step.do = "check" => validate(step, snapshot) = "ok"
<1> DEFINE step == Inputs(op)[pos]
<1>1. op \in OPERATION_NAMES /\ LayerInv /\ pos \in Nat \ {0}
  BY DEF CallInv, ReadInv
<1>2. /\ Len(Inputs(op)) \in Nat /\ Snapshot(Inputs(op), Required(op), Targets(op))
      /\ pos \in 1 .. Len(Inputs(op)) /\ step \in Steps
  BY <1>1, InputSnapshot
<1>3. Accepts(step, given[layer])
  BY <1>1, <1>2 DEF LayerInv, Checked
<1>4. ASSUME step.do = "check"
      PROVE  validate(step, snapshot) = "ok"
  <2>1. \A f \in Uses(step) : HasRead(f)
    BY <1>2, <1>4 DEF Snapshot, Ordered, HasRead
  <2>2. \A f \in Uses(step) : f \in Fields
    <3>1. Uses(step) \subseteq FieldsOf(Required(op), Targets(op))
      BY <1>2 DEF Snapshot, Covers
    <3> QED
      BY <1>1, <3>1, BytesApart
  <2>3. \A f \in Uses(step) : given[layer][f] = snapshot[f]
    BY <1>1, <2>1, <2>2 DEF LayerInv
  <2>4. Accepts(step, snapshot)
    BY <1>2, <1>3, <2>3, AcceptsLocally
  <2> QED
    BY <1>4, <2>4 DEF Accepts
<1> QED
  BY <1>3, <1>4 DEF Accepts

LEMMA InnerStep ==
    ASSUME CallInv, ReadInv, [Next]_vars, phase = "input", layer < Depth
    PROVE  phase' # "unwind"
<1>1. CASE ReadInput
  BY <1>1, InnerAccepts DEF ReadInput, Offered
<1>2. CASE CheckInput
  BY <1>2, InnerAccepts DEF CheckInput
<1>3. CASE PassDown
  BY <1>3 DEF PassDown
<1> QED
  BY <1>1, <1>2, <1>3 DEF Next, Step, Ended, Call, BackendReturns, BackendThrows, ReadOutput,
                          ObtainSecret, CopySecret, Return, Unwind, vars

LEMMA ReadStep ==
    ASSUME CallInv, ReadInv, [Next]_vars
    PROVE  ReadInv'
<1>1. CASE \E o \in Operations : Call(o)
  <2>1. PICK o \in Operations : Call(o)
    BY <1>1
  <2> DEFINE arguments == [f \in Fields |-> IF f \in Bytes(o) THEN "caller" ELSE "absent"]
  <2>2. /\ phase = "idle" /\ phase' = "input" /\ op' = o /\ layer' = Depth /\ layer = Depth
        /\ pos' = 1 /\ snapshot' = Nothing /\ snapshot' = snapshot
        /\ given' = [given EXCEPT ![Depth] = arguments] /\ o \in OPERATION_NAMES
    BY <2>1, FacadeAssumption DEF Call, CallInv, ReadInv
  <2>3. arguments \in [Fields -> Values \cup {"caller"}]
    BY DEF Values
  <2>4. Bytes(o) \subseteq Fields /\ Len(Inputs(o)) \in Nat
    BY <2>2, BytesApart, InputSnapshot
  <2>5. \A f \in Bytes(o) : arguments[f] = "caller"
    BY <2>4
  <2> HIDE DEF arguments
  <2>6. given' \in [0 .. Depth -> [Fields -> Values \cup {"caller"}]] /\ given'[Depth] = arguments
    BY <2>2, <2>3, FacadeAssumption DEF ReadInv
  <2>7. LayerInv'
    BY <2>2, <2>4, <2>5, <2>6, FacadeAssumption DEF LayerInv, Nothing
  <2>8. given'[0] = given'[Depth - 1]
    BY <2>2, FacadeAssumption DEF ReadInv
  <2> QED
    BY <2>2, <2>6, <2>7, <2>8 DEF ReadInv
<1>2. CASE ReadInput
  <2> DEFINE step == Inputs(op)[pos]
  <2>1. /\ phase = "input" /\ op \in OPERATION_NAMES /\ layer \in 1 .. Depth /\ Depth \in Nat
        /\ pos \in Nat \ {0} /\ pos <= Len(Inputs(op)) /\ LayerInv /\ step.do = "read"
    BY <1>2, FacadeAssumption DEF ReadInput, CallInv, ReadInv
  <2>2. /\ Len(Inputs(op)) \in Nat /\ Snapshot(Inputs(op), Required(op), Targets(op))
        /\ pos \in 1 .. Len(Inputs(op)) /\ \A i \in 1 .. Len(Inputs(op)) : Inputs(op)[i] \in Steps
    BY <2>1, InputSnapshot
  <2>3. PICK value \in Offered(step) :
          \/ /\ dtoField(step.as, value) = "ok"
             /\ snapshot' = [snapshot EXCEPT ![step.field] = value] /\ pos' = pos + 1
             /\ UNCHANGED <<op, phase, layer, given>>
          \/ phase' = "unwind" /\ UNCHANGED <<given, snapshot>>
    BY <1>2 DEF ReadInput, Throw
  <2>4. CASE phase' = "unwind" /\ UNCHANGED <<given, snapshot>>
    BY <2>1, <2>4, InnerStep DEF ReadInv
  <2>5. CASE /\ dtoField(step.as, value) = "ok"
             /\ snapshot' = [snapshot EXCEPT ![step.field] = value] /\ pos' = pos + 1
             /\ UNCHANGED <<op, phase, layer, given>>
    <3>1. step.field \in Fields
      BY <2>2 DEF Steps
    <3>2. /\ value \in Values \cup {"caller"}
          /\ layer < Depth => value = given[layer][step.field]
      BY <2>1, <3>1 DEF Offered, ReadInv
    <3>3. /\ snapshot' \in [Fields -> Values \cup {"caller"}] /\ snapshot'[step.field] = value
          /\ \A f \in Fields : f # step.field => snapshot'[f] = snapshot[f]
      BY <2>5, <3>1, <3>2 DEF ReadInv
    <3>4. \A i \in 1 .. pos' - 1 : i = pos \/ i \in 1 .. pos - 1
      BY <2>1, <2>5
    <3>5. \A i \in 1 .. pos' - 1 : Accepts(Inputs(op)[i], snapshot')
      <4> TAKE i \in 1 .. pos' - 1
      <4>1. CASE i = pos
        BY <2>1, <2>5, <3>3, <4>1 DEF Accepts
      <4>2. CASE i \in 1 .. pos - 1
        <5>1. i \in 1 .. Len(Inputs(op)) /\ i < pos
          BY <2>1, <2>2, <4>2
        <5>2. step.field \notin Uses(Inputs(op)[i])
          BY <2>1, <2>2, <5>1 DEF Snapshot, Ordered
        <5>3. Uses(Inputs(op)[i]) \subseteq Fields
          <6>1. Uses(Inputs(op)[i]) \subseteq FieldsOf(Required(op), Targets(op))
            BY <2>2, <5>1 DEF Snapshot, Covers
          <6> QED
            BY <2>1, <6>1, BytesApart
        <5>4. \A f \in Uses(Inputs(op)[i]) : snapshot[f] = snapshot'[f]
          BY <3>3, <5>2, <5>3
        <5>5. Accepts(Inputs(op)[i], snapshot)
          BY <2>1, <4>2 DEF LayerInv
        <5> QED
          BY <2>2, <5>1, <5>4, <5>5, AcceptsLocally
      <4> QED
        BY <3>4, <4>1, <4>2
    <3>6. \A f \in Fields : HasRead(f)' <=> HasRead(f) \/ f = step.field
      <4>1. pos \in 1 .. pos' - 1 /\ \A i \in 1 .. pos - 1 : i \in 1 .. pos' - 1
        BY <2>1, <2>5
      <4> QED
        BY <2>1, <2>5, <3>4, <4>1 DEF HasRead
    <3>7. pos' <= Len(Inputs(op')) + 1
      BY <2>1, <2>2, <2>5
    <3>8. LayerInv'
      BY <2>1, <2>5, <3>2, <3>3, <3>5, <3>6, <3>7 DEF LayerInv, Checked
    <3> QED
      BY <2>1, <2>5, <3>3, <3>8 DEF ReadInv
  <2> QED
    BY <2>3, <2>4, <2>5
<1>3. CASE CheckInput
  <2> DEFINE step == Inputs(op)[pos]
  <2>1. /\ phase = "input" /\ op \in OPERATION_NAMES /\ layer \in 1 .. Depth /\ Depth \in Nat
        /\ pos \in Nat \ {0} /\ pos <= Len(Inputs(op)) /\ LayerInv /\ step.do = "check"
    BY <1>3, FacadeAssumption DEF CheckInput, CallInv, ReadInv
  <2>2. Len(Inputs(op)) \in Nat
    BY <2>1, InputSnapshot
  <2>3. CASE phase' = "unwind" /\ UNCHANGED <<given, snapshot>>
    BY <2>1, <2>3, InnerStep DEF ReadInv
  <2>4. CASE /\ validate(step, snapshot) = "ok" /\ pos' = pos + 1
             /\ UNCHANGED <<op, phase, layer, given, snapshot>>
    <3>1. \A i \in 1 .. pos' - 1 : i = pos \/ i \in 1 .. pos - 1
      BY <2>1, <2>4
    <3>2. \A i \in 1 .. pos' - 1 : Accepts(Inputs(op)[i], snapshot)
      BY <2>1, <2>4, <3>1 DEF LayerInv, Accepts
    <3>3. \A f \in Fields : HasRead(f)' <=> HasRead(f)
      <4>1. \A i \in 1 .. pos - 1 : i \in 1 .. pos' - 1
        BY <2>1, <2>4
      <4> QED
        BY <2>1, <2>4, <3>1, <4>1 DEF HasRead
    <3>4. pos' <= Len(Inputs(op')) + 1
      BY <2>1, <2>2, <2>4
    <3>5. LayerInv'
      BY <2>1, <2>4, <3>2, <3>3, <3>4 DEF LayerInv, Checked
    <3> QED
      BY <2>1, <2>4, <3>5 DEF ReadInv
  <2> QED
    BY <1>3, <2>3, <2>4 DEF CheckInput, Throw
<1>4. CASE PassDown
  <2>1. /\ phase = "input" /\ op \in OPERATION_NAMES /\ layer \in 1 .. Depth /\ Depth \in Nat
        /\ layer - 1 \in 0 .. Depth /\ op' = op /\ layer' = layer - 1 /\ pos' = 1
        /\ snapshot' = Nothing /\ given' = [given EXCEPT ![layer - 1] = PassedDown]
        /\ phase' = IF layer = 1 THEN "backend" ELSE "input"
        /\ pos > Len(Inputs(op)) /\ LayerInv
    BY <1>4, FacadeAssumption DEF PassDown, CallInv, ReadInv
  <2>2. /\ PassedDown \in [Fields -> Values \cup {"caller"}] /\ Checked(op, PassedDown)
        /\ layer < Depth => PassedDown = given[layer]
    BY <2>1, PassesChecked
  <2> HIDE DEF PassedDown
  <2>3. /\ given' \in [0 .. Depth -> [Fields -> Values \cup {"caller"}]]
        /\ given'[layer - 1] = PassedDown
        /\ layer < Depth => given'[Depth - 1] = given[Depth - 1]
    BY <2>1, <2>2 DEF ReadInv
  <2>4. given'[layer - 1] = given'[Depth - 1]
    <3>1. CASE layer = Depth
      BY <3>1
    <3>2. CASE layer < Depth
      BY <2>1, <2>2, <2>3, <3>2 DEF LayerInv
    <3> QED
      BY <2>1, <3>1, <3>2
  <2>5. Nothing \in [Fields -> Values \cup {"caller"}]
    BY DEF Nothing, Values
  <2>6. Checked(op', given'[layer - 1])
    BY <2>1, <2>2, <2>3
  <2>7. CASE layer = 1
    BY <2>1, <2>3, <2>4, <2>5, <2>6, <2>7 DEF ReadInv
  <2>8. CASE layer # 1
    <3>1. \A f \in Bytes(op') : given'[layer - 1][f] = "caller"
      BY <2>6 DEF Checked, WellFormed
    <3>2. Len(Inputs(op')) \in Nat /\ 1 .. pos' - 1 = {}
      BY <2>1, InputSnapshot
    <3>3. LayerInv'
      BY <2>1, <2>4, <2>6, <3>1, <3>2 DEF LayerInv, HasRead, Nothing
    <3> QED
      BY <2>1, <2>3, <2>5, <2>8, <3>3 DEF ReadInv
  <2> QED
    BY <2>7, <2>8
<1>5. CASE \/ BackendReturns \/ BackendThrows \/ ReadOutput \/ ObtainSecret \/ CopySecret
           \/ Return \/ Unwind \/ Ended
  <2>1. /\ UNCHANGED <<op, given, snapshot>> /\ phase' \notin {"idle", "input"}
        /\ phase # "input"
        /\ phase' \in {"backend", "output"} => phase \in {"backend", "output"}
    BY <1>5 DEF BackendReturns, BackendThrows, ReadOutput, ObtainSecret, CopySecret, Return,
                Unwind, Ended, Throw, vars
  <2> QED
    BY <2>1 DEF ReadInv, Checked
<1>6. CASE UNCHANGED vars
  BY <1>6 DEF vars, ReadInv, LayerInv, HasRead, Checked
<1> QED
  BY <1>1, <1>2, <1>3, <1>4, <1>5, <1>6 DEF Next, Step

LEMMA ErrorStep ==
    ASSUME CallInv, ErrorInv, [Next]_vars
    PROVE  ErrorInv'
<1> USE FacadeAssumption DEF CallInv
<1>0. ASSUME NEW code, Throw(code)
      PROVE  ErrorInv'
  <2>1. DOMAIN <<code>> \subseteq 1 .. 2
    OBVIOUS
  <2>2. thrown' = <<code>> /\ outcome' = normalizeOperationError(<<code>>)
    BY <1>0 DEF Throw
  <2>3. normalizeOperationError(<<code>>) \in CORE_ERROR_CODES
    BY <2>1, NormalIsCode
  <2> QED
    BY <2>2, <2>3 DEF ErrorInv
<1>1. CASE \E o \in Operations : Call(o)
  BY <1>1 DEF Call, ErrorInv
<1>2. CASE ReadInput \/ CheckInput
  BY <1>0, <1>2 DEF ReadInput, CheckInput, ErrorInv
<1>3. CASE PassDown
  BY <1>3 DEF PassDown, ErrorInv
<1>4. CASE BackendReturns
  BY <1>4 DEF BackendReturns, ErrorInv
<1>5. CASE BackendThrows
  <2>1. PICK candidates \in BackendErrors :
          thrown' = candidates /\ outcome' = normalizeOperationError(candidates)
    BY <1>5 DEF BackendThrows
  <2>2. normalizeOperationError(candidates) \in CORE_ERROR_CODES
    BY BackendErrorsAreShort, NormalIsCode
  <2> QED
    BY <2>1, <2>2 DEF ErrorInv
<1>6. CASE ReadOutput
  BY <1>0, <1>6 DEF ReadOutput, ErrorInv
<1>7. CASE ObtainSecret
  BY <1>0, <1>7 DEF ObtainSecret, ErrorInv
<1>8. CASE CopySecret
  BY <1>0, <1>8 DEF CopySecret, ErrorInv
<1>9. CASE Return
  BY <1>9 DEF Return, ErrorInv
<1>10. CASE Unwind
  <2>1. normalizeOperationError(<<outcome, outcome>>) = outcome /\ outcome \in CORE_ERROR_CODES
    BY <1>10, NormalizedTwice DEF Unwind, ErrorInv
  <2> QED
    BY <1>10, <2>1 DEF Unwind, ErrorInv
<1>11. CASE UNCHANGED vars
  BY <1>11 DEF vars, ErrorInv
<1> QED
  BY <1>1, <1>2, <1>3, <1>4, <1>5, <1>6, <1>7, <1>8, <1>9, <1>10, <1>11 DEF Next, Step, Ended

-----------------------------------------------------------------------------
(* Arrays *)

LEMMA Cleared ==
    ASSUME NEW memory \in [Arrays -> Contents], NEW arrays
    PROVE  /\ clearSecretBytes(memory, arrays) \in [Arrays -> Contents]
           /\ \A a \in Arrays :
                /\ a \notin arrays => clearSecretBytes(memory, arrays)[a] = memory[a]
                /\ clearSecretBytes(memory, arrays)[a] \in Secret => a \notin arrays
BY DEF clearSecretBytes, Contents, Secret

LEMMA ArraysAre ==
    /\ CallerPayload \in Arrays
    /\ \A d \in 0 .. Depth : Payload(d) \in Arrays /\ Payload(d) # CallerPayload
    /\ \A f \in SecretNames, d \in 0 .. Depth :
         /\ Array(f, d) \in Arrays /\ Array(f, d) # CallerPayload
         /\ \A e \in 0 .. Depth : Array(f, d) # Payload(e)
    /\ \A a \in Arrays : a[2] \in Nat /\ a = <<a[1], a[2]>>
BY FacadeAssumption DEF Arrays, CallerPayload, Payload, Array, SecretNames

LEMMA ThrowArrays ==
    ASSUME CallInv, ArrayInv, NEW code, Throw(code), UNCHANGED <<op, layer>>,
           phase = "input" \/ (phase = "output" /\ layer = 1)
    PROVE  ArrayInv' /\ OutputInv'
<1> DEFINE gone == sources \cup copies \cup {Payload(layer)}
<1>1. /\ heap' = clearSecretBytes(heap, gone) /\ copies' = {} /\ phase' = "unwind"
      /\ sources' = sources
  BY DEF Throw
<1>2. /\ heap' \in [Arrays -> Contents]
      /\ \A a \in Arrays : /\ a \notin gone => heap'[a] = heap[a]
                           /\ heap'[a] \in Secret => a \notin gone
  <2>1. heap \in [Arrays -> Contents]
    BY DEF ArrayInv
  <2> HIDE DEF gone
  <2> QED
    BY <1>1, <2>1, Cleared
<1>3. layer \in 1 .. Depth /\ Depth \in Nat
  BY FacadeAssumption DEF CallInv
<1>4. CallerPayload \notin gone
  BY <1>3, ArraysAre, SecretFieldsType DEF ArrayInv, CallerPayload, Payload, SecretNames
<1>5. \A a \in Arrays : heap'[a] \in Secret => Exposed(a)'
  <2> SUFFICES ASSUME NEW a \in Arrays, heap'[a] \in Secret
               PROVE  Exposed(a)'
    OBVIOUS
  <2>1. a \notin sources /\ a \notin copies /\ a # Payload(layer) /\ heap[a] \in Secret
    BY <1>2
  <2>2. Exposed(a)
    BY <2>1 DEF ArrayInv
  <2>3. a[2] \in Nat /\ a = <<a[1], a[2]>>
    BY ArraysAre
  <2>4. CASE a = CallerPayload
    BY <2>4 DEF Exposed, CallerPayload, Payload
  <2>5. CASE a[1] = "payload" /\ a[2] >= layer /\ a[2] <= Depth
    <3>1. a[2] # layer
      BY <2>1, <2>3, <2>5 DEF Payload
    <3>2. a[2] >= layer + 1 /\ layer' = layer
      BY <3>1, <2>3, <2>5, <1>3
    <3> QED
      BY <1>1, <2>5, <3>2 DEF Exposed, LowestPayload
  <2>6. CASE a[2] = 0
    BY <1>1, <2>1, <2>6 DEF Exposed
  <2> QED
    BY <2>1, <2>2, <2>4, <2>5, <2>6 DEF Exposed, LowestPayload
<1>6. heap'[CallerPayload] = "secret"
  BY <1>2, <1>4, ArraysAre DEF ArrayInv
<1>7. \A a \in sources' : a[1] \in Secrets(op') /\ a[2] \in 0 .. layer' - 1
  BY <1>1 DEF ArrayInv
<1>8. ArrayInv'
  BY <1>1, <1>2, <1>5, <1>6, <1>7 DEF ArrayInv, CallerPayload, Payload
<1> QED
  BY <1>1, <1>8 DEF OutputInv

LEMMA InputArrays ==
    ASSUME CallInv, ArrayInv, OutputInv, ReadInput \/ CheckInput
    PROVE  ArrayInv' /\ OutputInv'
<1>1. phase = "input" /\ layer \in 1 .. Depth /\ Depth \in Nat
  BY FacadeAssumption DEF ReadInput, CheckInput, CallInv
<1>2. CASE \E code : Throw(code) /\ UNCHANGED <<op, layer>>
  BY <1>1, <1>2, ThrowArrays
<1>3. CASE /\ \/ heap' = [heap EXCEPT ![Payload(layer)] = heap[Payload(layer + 1)]]
              \/ heap' = heap
           /\ UNCHANGED <<op, phase, layer, sources, copies>>
  <2>1. Payload(layer) \in Arrays /\ Payload(layer + 1) \in Arrays
    BY <1>1, FacadeAssumption DEF Arrays, Payload
  <2>2. /\ heap' \in [Arrays -> Contents]
        /\ \A a \in Arrays : a # Payload(layer) => heap'[a] = heap[a]
    BY <1>3, <2>1 DEF ArrayInv
  <2>3. heap'[CallerPayload] = "secret"
    BY <1>1, <2>2, ArraysAre DEF ArrayInv
  <2>4. \A a \in Arrays : heap'[a] \in Secret => Exposed(a)'
    <3> SUFFICES ASSUME NEW a \in Arrays, heap'[a] \in Secret
                 PROVE  Exposed(a)'
      OBVIOUS
    <3>1. CASE a = Payload(layer)
      BY <1>1, <1>3, <3>1 DEF Exposed, LowestPayload, Payload
    <3>2. CASE a # Payload(layer)
      <4>1. Exposed(a)
        BY <2>2, <3>2 DEF ArrayInv
      <4> QED
        BY <1>1, <1>3, <4>1 DEF Exposed, LowestPayload, CallerPayload, Payload
    <3> QED
      BY <3>1, <3>2
  <2>5. ArrayInv'
    BY <1>1, <1>3, <2>2, <2>3, <2>4 DEF ArrayInv, CallerPayload, Payload
  <2> QED
    BY <1>1, <1>3, <2>5 DEF OutputInv
<1> QED
  BY <1>2, <1>3 DEF ReadInput, CheckInput

LEMMA PassDownArrays ==
    ASSUME CallInv, ArrayInv, OutputInv, PassDown
    PROVE  ArrayInv' /\ OutputInv'
<1>1. /\ phase = "input" /\ layer \in 1 .. Depth /\ Depth \in Nat
      /\ phase' \in {"input", "backend"} /\ layer' = layer - 1
      /\ UNCHANGED <<op, heap, sources, copies>>
  BY FacadeAssumption DEF PassDown, CallInv
<1>2. ASSUME NEW a \in Arrays, heap'[a] \in Secret
      PROVE  Exposed(a)'
  <2>1. Exposed(a) /\ a[2] \in Nat
    BY <1>1, <1>2, ArraysAre DEF ArrayInv
  <2> QED
    BY <1>1, <2>1 DEF Exposed, LowestPayload, CallerPayload, Payload
<1>3. sources = {} /\ copies = {}
  BY <1>1 DEF ArrayInv
<1>4. ArrayInv'
  BY <1>1, <1>2, <1>3 DEF ArrayInv, CallerPayload, Payload
<1> QED
  BY <1>1, <1>4 DEF OutputInv

LEMMA BackendArrays ==
    ASSUME CallInv, ArrayInv, OutputInv, BackendReturns
    PROVE  ArrayInv' /\ OutputInv'
<1>1. /\ phase = "backend" /\ layer = 0 /\ pos' = 1 /\ Depth \in Nat \ {0}
      /\ phase' = "output" /\ layer' = 1 /\ UNCHANGED <<op, sources, copies>>
      /\ op \in OPERATION_NAMES
  BY FacadeAssumption DEF BackendReturns, CallInv
<1>2. PICK made \in [Secrets(op) -> Contents \ {"zero", "absent"}] :
        heap' = [a \in Arrays |->
                   IF a[2] = 0 /\ a[1] \in Secrets(op) THEN made[a[1]] ELSE heap[a]]
  BY DEF BackendReturns
<1>3. Secrets(op) \subseteq SecretNames
  BY SecretFieldsType
<1>4. heap' \in [Arrays -> Contents]
  BY <1>2 DEF ArrayInv
<1>5. heap'[CallerPayload] = "secret"
  <2>1. CallerPayload[2] # 0
    BY <1>1 DEF CallerPayload, Payload
  <2> QED
    BY <1>2, <2>1, ArraysAre DEF ArrayInv
<1>6. ASSUME NEW a \in Arrays, heap'[a] \in Secret
      PROVE  Exposed(a)'
  <2>1. CASE a[2] = 0 /\ a[1] \in Secrets(op)
    BY <1>1, <2>1 DEF Exposed
  <2>2. CASE ~(a[2] = 0 /\ a[1] \in Secrets(op))
    <3>1. heap[a] \in Secret
      BY <1>2, <1>6, <2>2
    <3>2. Exposed(a) /\ a[2] \in Nat
      BY <3>1, ArraysAre DEF ArrayInv
    <3>3. CASE a[1] = "payload" /\ a[2] >= 0 /\ a[2] <= Depth /\ a[2] # 0
      BY <1>1, <3>2, <3>3 DEF Exposed, LowestPayload
    <3>4. CASE a = CallerPayload
      BY <3>4 DEF Exposed, CallerPayload, Payload
    <3>5. CASE a[2] = 0
      BY <1>1, <3>5 DEF Exposed, ArrayInv
    <3> QED
      BY <1>1, <3>2, <3>3, <3>4, <3>5 DEF Exposed, LowestPayload
  <2> QED
    BY <2>1, <2>2
<1>7. sources' = {} /\ copies' = {}
  BY <1>1 DEF ArrayInv
<1>8. ArrayInv'
  BY <1>1, <1>4, <1>5, <1>6, <1>7 DEF ArrayInv, CallerPayload, Payload
<1>9. \A f \in Secrets(op) : heap'[Array(f, 0)] # "zero"
  <2> TAKE f \in Secrets(op)
  <2>1. Array(f, 0) \in Arrays
    BY <1>1, <1>3, ArraysAre
  <2>2. heap'[Array(f, 0)] = made[f]
    BY <1>2, <2>1 DEF Array
  <2> QED
    BY <2>2
<1>10. Len(Outputs(op)) \in Nat
  BY <1>1, OutputReads DEF OutputsCover
<1> QED
  BY <1>1, <1>7, <1>8, <1>9, <1>10 DEF OutputInv

LEMMA BackendThrowArrays ==
    ASSUME CallInv, ArrayInv, OutputInv, BackendThrows
    PROVE  ArrayInv' /\ OutputInv'
<1>1. /\ phase = "backend" /\ layer = 0 /\ Depth \in Nat \ {0}
      /\ phase' = "unwind" /\ layer' = 1 /\ UNCHANGED <<op, sources, copies>>
      /\ heap' = clearSecretBytes(heap, {Payload(1)})
  BY FacadeAssumption DEF BackendThrows, CallInv
<1>2. /\ heap' \in [Arrays -> Contents]
      /\ \A a \in Arrays : /\ a # Payload(1) => heap'[a] = heap[a]
                           /\ heap'[a] \in Secret => a # Payload(1)
  <2>1. heap \in [Arrays -> Contents]
    BY DEF ArrayInv
  <2> QED
    BY <1>1, <2>1, Cleared
<1>3. heap'[CallerPayload] = "secret"
  <2>1. Payload(1) # CallerPayload /\ CallerPayload \in Arrays
    BY <1>1, ArraysAre
  <2> QED
    BY <1>2, <2>1 DEF ArrayInv
<1>4. sources = {} /\ copies = {}
  BY <1>1 DEF ArrayInv
<1>5. ASSUME NEW a \in Arrays, heap'[a] \in Secret
      PROVE  Exposed(a)'
  <2>1. a # Payload(1) /\ Exposed(a)
    BY <1>2, <1>5 DEF ArrayInv
  <2>2. a[2] \in Nat /\ a = <<a[1], a[2]>>
    BY ArraysAre
  <2>3. CASE a = CallerPayload
    BY <2>3 DEF Exposed, CallerPayload, Payload
  <2>4. CASE a[1] = "payload" /\ a[2] <= Depth /\ a[2] # 0
    <3>1. a[2] # 1
      BY <2>1, <2>2, <2>4 DEF Payload
    <3> QED
      BY <1>1, <2>2, <2>4, <3>1 DEF Exposed, LowestPayload
  <2>5. CASE a[2] = 0
    BY <1>1, <1>4, <2>5 DEF Exposed
  <2> QED
    BY <1>1, <2>1, <2>3, <2>4, <2>5 DEF Exposed, LowestPayload
<1>6. ArrayInv'
  BY <1>1, <1>2, <1>3, <1>4, <1>5 DEF ArrayInv, CallerPayload, Payload
<1> QED
  BY <1>1, <1>6 DEF OutputInv

LEMMA ReadOutputArrays ==
    ASSUME CallInv, ArrayInv, OutputInv, ReadOutput
    PROVE  ArrayInv' /\ OutputInv'
<1>1. /\ phase = "output" /\ op \in OPERATION_NAMES /\ layer \in 1 .. Depth /\ Depth \in Nat
      /\ pos \in Nat \ {0} /\ pos <= Len(Outputs(op)) /\ Outputs(op)[pos][1] = "read"
  BY FacadeAssumption DEF ReadOutput, CallInv
<1>2. CASE layer = 1 /\ Throw("BindingFailure") /\ UNCHANGED <<op, layer>>
  BY <1>1, <1>2, ThrowArrays
<1>3. CASE /\ pos' = pos + 1
           /\ UNCHANGED <<op, phase, layer, heap, sources, copies, outcome>>
  <2>1. Len(Outputs(op)) \in Nat
    BY <1>1, OutputReads DEF OutputsCover
  <2>2. ArrayInv'
    BY <1>3 DEF ArrayInv, Exposed, LowestPayload, Returned, CallerPayload, Payload
  <2>3. \A i \in 1 .. pos' - 1 : i = pos \/ i \in 1 .. pos - 1
    BY <1>1, <1>3
  <2> QED
    BY <1>1, <1>3, <2>1, <2>2, <2>3 DEF OutputInv, Returned
<1> QED
  BY <1>2, <1>3 DEF ReadOutput

LEMMA ObtainArrays ==
    ASSUME CallInv, ArrayInv, OutputInv, ObtainSecret
    PROVE  ArrayInv' /\ OutputInv'
<1> DEFINE f == Outputs(op)[pos][2]
<1>1. /\ phase = "output" /\ op \in OPERATION_NAMES /\ layer \in 1 .. Depth /\ Depth \in Nat
      /\ pos \in Nat \ {0} /\ pos <= Len(Outputs(op)) /\ Outputs(op)[pos][1] = "obtain"
  BY FacadeAssumption DEF ObtainSecret, CallInv
<1>2. CASE layer = 1 /\ Throw("BindingFailure") /\ UNCHANGED <<op, layer>>
  BY <1>1, <1>2, ThrowArrays
<1>3. CASE /\ pos' = pos + 1 /\ sources' = sources \cup {Array(f, layer - 1)}
           /\ UNCHANGED <<op, phase, layer, heap, copies, outcome>>
  <2>1. Len(Outputs(op)) \in Nat
    BY <1>1, OutputReads DEF OutputsCover
  <2>2. f \in Secrets(op)
    BY <1>1, <2>1, OutputReads DEF OutputsCover
  <2> HIDE DEF f
  <2>3. ASSUME NEW a \in Arrays, heap'[a] \in Secret
        PROVE  Exposed(a)'
    <3>1. Exposed(a)
      BY <1>3, <2>3 DEF ArrayInv
    <3>2. CASE a = Array(f, layer - 1)
      BY <1>1, <1>3, <2>2, <3>2 DEF Exposed, Array
    <3>3. CASE a # Array(f, layer - 1)
      BY <1>1, <1>3, <3>1, <3>3 DEF Exposed, LowestPayload, Returned, CallerPayload, Payload
    <3> QED
      BY <3>2, <3>3
  <2>4. \A a \in sources' : a[1] \in Secrets(op') /\ a[2] \in 0 .. layer' - 1
    BY <1>1, <1>3, <2>2 DEF ArrayInv, Array
  <2>5. ArrayInv'
    BY <1>1, <1>3, <2>3, <2>4 DEF ArrayInv, CallerPayload, Payload
  <2>6. \A i \in 1 .. pos' - 1 : i = pos \/ i \in 1 .. pos - 1
    BY <1>1, <1>3
  <2> QED
    BY <1>1, <1>3, <2>1, <2>5, <2>6 DEF OutputInv, Returned, f
<1> QED
  BY <1>2, <1>3 DEF ObtainSecret

LEMMA CopyArrays ==
    ASSUME CallInv, ArrayInv, OutputInv, CopySecret
    PROVE  ArrayInv' /\ OutputInv'
<1> DEFINE f == Outputs(op)[pos][2]
<1>1. /\ phase = "output" /\ op \in OPERATION_NAMES /\ layer \in 1 .. Depth /\ Depth \in Nat
      /\ pos \in Nat \ {0} /\ pos <= Len(Outputs(op)) /\ Outputs(op)[pos][1] = "copy"
  BY FacadeAssumption DEF CopySecret, CallInv
<1>2. Len(Outputs(op)) \in Nat
  BY <1>1, OutputReads DEF OutputsCover
<1>3. f \in Secrets(op)
  BY <1>1, <1>2, OutputReads DEF OutputsCover
<1>4. CASE /\ ~outputBytes(f, heap[Array(f, layer - 1)])
           /\ Throw("BindingFailure") /\ UNCHANGED <<op, layer>>
  <2>1. layer = 1
    BY <1>1, <1>3, <1>4 DEF OutputInv
  <2> QED
    BY <1>1, <1>4, <2>1, ThrowArrays
<1>5. CASE /\ outputBytes(f, heap[Array(f, layer - 1)])
           /\ heap' = [heap EXCEPT ![Array(f, layer)] = heap[Array(f, layer - 1)]]
           /\ copies' = copies \cup {Array(f, layer)} /\ pos' = pos + 1
           /\ UNCHANGED <<op, phase, layer, sources, outcome>>
  <2> HIDE DEF f
  <2>1. \A g \in Secrets(op), d \in 0 .. Depth : Array(g, d) \in Arrays
    BY SecretFieldsType, ArraysAre
  <2>2. Array(f, layer) # CallerPayload /\ layer - 1 \in 0 .. Depth /\ layer \in 0 .. Depth
    BY <1>1, <1>3, SecretFieldsType, ArraysAre
  <2>3. /\ heap' \in [Arrays -> Contents]
        /\ heap'[Array(f, layer)] = heap[Array(f, layer - 1)]
        /\ \A a \in Arrays : a # Array(f, layer) => heap'[a] = heap[a]
    BY <1>3, <1>5, <2>1, <2>2 DEF ArrayInv
  <2>4. heap'[CallerPayload] = "secret"
    BY <2>2, <2>3, ArraysAre DEF ArrayInv
  <2>5. ASSUME NEW a \in Arrays, heap'[a] \in Secret
        PROVE  Exposed(a)'
    <3>1. CASE a = Array(f, layer)
      BY <1>1, <1>5, <3>1 DEF Exposed
    <3>2. CASE a # Array(f, layer)
      <4>1. Exposed(a)
        BY <2>3, <2>5, <3>2 DEF ArrayInv
      <4> QED
        BY <1>1, <1>5, <4>1 DEF Exposed, LowestPayload, Returned, CallerPayload, Payload
    <3> QED
      BY <3>1, <3>2
  <2>6. \A a \in copies' : phase' = "output" /\ a[1] \in Secrets(op') /\ a[2] = layer'
    BY <1>1, <1>3, <1>5 DEF ArrayInv, Array
  <2>7. ArrayInv'
    BY <1>1, <1>5, <2>3, <2>4, <2>5, <2>6 DEF ArrayInv, CallerPayload, Payload
  <2>8. \A i \in 1 .. pos' - 1 : i = pos \/ i \in 1 .. pos - 1
    BY <1>1, <1>5
  <2>9. \A g \in Secrets(op) :
          /\ heap'[Array(g, layer - 1)] = heap[Array(g, layer - 1)]
          /\ g # f => heap'[Array(g, layer)] = heap[Array(g, layer)] 
    <3> TAKE g \in Secrets(op)
    <3>1. Array(g, layer - 1) # Array(f, layer) /\ (g # f => Array(g, layer) # Array(f, layer))
      BY <1>1 DEF Array
    <3> QED
      BY <2>1, <2>2, <2>3, <3>1
  <2>10. /\ heap'[Array(f, layer)] # "zero"
         /\ outputBytes(f, heap'[Array(f, layer)])
    BY <1>1, <1>3, <1>5, <2>3 DEF OutputInv
  <2>11. \A g \in Secrets(op) : Array(g, layer) \in copies' /\ g # f => Array(g, layer) \in copies
    BY <1>5 DEF Array
  <2>12. \A i \in 1 .. pos' - 1 :
           /\ Outputs(op)[i][1] = "obtain" => Array(Outputs(op)[i][2], layer - 1) \in sources'
           /\ Outputs(op)[i][1] = "copy" => Array(Outputs(op)[i][2], layer) \in copies'
    BY <1>1, <1>5, <2>8 DEF OutputInv, f
  <2>13. \A g \in Secrets(op) :
           /\ heap'[Array(g, layer - 1)] # "zero"
           /\ layer > 1 => outputBytes(g, heap'[Array(g, layer - 1)])
           /\ Array(g, layer) \in copies' =>
                 heap'[Array(g, layer)] # "zero" /\ outputBytes(g, heap'[Array(g, layer)])
    <3> TAKE g \in Secrets(op)
    <3>1. CASE g = f
      BY <1>1, <2>9, <2>10, <3>1 DEF OutputInv
    <3>2. CASE g # f
      BY <1>1, <2>9, <2>11, <3>2 DEF OutputInv
    <3> QED
      BY <3>1, <3>2
  <2> QED
    BY <1>1, <1>2, <1>5, <2>7, <2>12, <2>13 DEF OutputInv
<1> QED
  BY <1>4, <1>5 DEF CopySecret

(* When a layer has made all reads of a result it has obtained and copied every secret. *)
LEMMA AllCopied ==
    ASSUME CallInv, OutputInv, phase = "output", pos > Len(Outputs(op)), NEW f \in Secrets(op)
    PROVE  Array(f, layer - 1) \in sources /\ Array(f, layer) \in copies
<1>1. op \in OPERATION_NAMES /\ pos \in Nat
  BY DEF CallInv
<1>2. OutputsCover(op)
  BY <1>1, OutputReads
<1>3. Len(Outputs(op)) \in Nat
  BY <1>2 DEF OutputsCover
<1>4. \A i \in 1 .. Len(Outputs(op)) : i \in 1 .. pos - 1
  BY <1>1, <1>3
<1>5. PICK i \in 1 .. Len(Outputs(op)) : Outputs(op)[i] = <<"obtain", f>>
  BY <1>2 DEF OutputsCover
<1>6. PICK k \in 1 .. Len(Outputs(op)) : Outputs(op)[k] = <<"copy", f>>
  BY <1>2 DEF OutputsCover
<1>7. /\ Outputs(op)[i][1] = "obtain" /\ Outputs(op)[i][2] = f
      /\ Outputs(op)[k][1] = "copy" /\ Outputs(op)[k][2] = f
  BY <1>5, <1>6
<1> QED
  BY <1>4, <1>7 DEF OutputInv

LEMMA ReturnArrays ==
    ASSUME CallInv, ArrayInv, OutputInv, Return
    PROVE  ArrayInv' /\ OutputInv'
<1> DEFINE gone == sources \cup {Payload(layer)}
<1>1. /\ phase = "output" /\ op \in OPERATION_NAMES /\ layer \in 1 .. Depth /\ Depth \in Nat
      /\ pos > Len(Outputs(op)) /\ heap' = clearSecretBytes(heap, gone)
      /\ copies' = {} /\ UNCHANGED <<op, sources>>
  BY FacadeAssumption DEF Return, CallInv
<1>2. /\ heap' \in [Arrays -> Contents]
      /\ \A a \in Arrays : /\ a \notin gone => heap'[a] = heap[a]
                           /\ heap'[a] \in Secret => a \notin gone
  <2>1. heap \in [Arrays -> Contents]
    BY DEF ArrayInv
  <2> HIDE DEF gone
  <2> QED
    BY <1>1, <2>1, Cleared
<1>3. Secrets(op) \subseteq SecretNames
  BY SecretFieldsType
<1>4. CallerPayload \notin gone
  BY <1>1, <1>3, ArraysAre DEF ArrayInv, CallerPayload, Payload, SecretNames
<1>5. heap'[CallerPayload] = "secret"
  BY <1>2, <1>4, ArraysAre DEF ArrayInv
<1>6. \A f \in Secrets(op) : Array(f, layer - 1) \in sources /\ Array(f, layer) \in copies
  BY <1>1, AllCopied
<1>7. ASSUME NEW f \in Secrets(op)
      PROVE  /\ heap'[Array(f, layer)] # "zero"
             /\ outputBytes(f, heap'[Array(f, layer)])
  <2>1. Array(f, layer) \notin sources
    BY <1>1 DEF ArrayInv, Array
  <2>2. Array(f, layer) \in Arrays /\ Array(f, layer) # Payload(layer)
    BY <1>1, <1>3, ArraysAre
  <2>3. heap'[Array(f, layer)] = heap[Array(f, layer)]
    BY <1>2, <2>1, <2>2
  <2> QED
    BY <1>1, <1>6, <2>3 DEF OutputInv
<1>8. ASSUME NEW a \in Arrays, heap'[a] \in Secret
      PROVE  \/ a = CallerPayload
             \/ a[1] = "payload" /\ a[2] >= layer + 1 /\ a[2] <= Depth
             \/ a[2] = 0 /\ a \notin sources
             \/ a[1] \in Secrets(op) /\ a[2] = layer
  <2>1. a \notin sources /\ a # Payload(layer) /\ heap[a] \in Secret
    BY <1>2, <1>8
  <2>2. Exposed(a)
    BY <2>1 DEF ArrayInv
  <2>3. a[2] \in Nat /\ a = <<a[1], a[2]>>
    BY ArraysAre
  <2>4. CASE a[1] = "payload" /\ a[2] >= layer /\ a[2] <= Depth
    <3>1. a[2] # layer
      BY <2>1, <2>3, <2>4 DEF Payload
    <3> QED
      BY <1>1, <2>3, <2>4, <3>1
  <2>5. CASE a \in copies
    BY <2>5 DEF ArrayInv
  <2>6. ~(a[1] \in Secrets(op) /\ a[2] = layer - 1)
    BY <1>6, <2>1, <2>3 DEF Array
  <2> QED
    BY <1>1, <2>1, <2>2, <2>4, <2>5, <2>6 DEF Exposed, LowestPayload
<1>9. CASE layer = Depth
  <2>1. phase' = "done" /\ outcome' = "ok" /\ layer' = layer
    BY <1>9 DEF Return
  <2>2. ASSUME NEW a \in Arrays, heap'[a] \in Secret
        PROVE  Exposed(a)'
    <3>1. a[2] \in Nat /\ a = <<a[1], a[2]>>
      BY ArraysAre
    <3>2. CASE a = CallerPayload
      BY <3>2 DEF Exposed, CallerPayload, Payload
    <3>3. CASE a[2] = 0 /\ a \notin sources
      BY <1>1, <3>3 DEF Exposed
    <3>4. CASE a[1] \in Secrets(op) /\ a[2] = layer
      BY <1>1, <1>9, <2>1, <3>1, <3>4 DEF Exposed, Returned, Array
    <3>5. \/ a = CallerPayload
          \/ a[1] = "payload" /\ a[2] >= layer + 1 /\ a[2] <= Depth
          \/ a[2] = 0 /\ a \notin sources
          \/ a[1] \in Secrets(op) /\ a[2] = layer
      BY <1>8, <2>2
    <3>6. ~(a[2] >= layer + 1 /\ a[2] <= Depth)
      BY <1>1, <1>9, <3>1
    <3> QED
      BY <3>2, <3>3, <3>4, <3>5, <3>6
  <2>3. ArrayInv'
    BY <1>1, <1>2, <1>5, <2>1, <2>2 DEF ArrayInv, CallerPayload, Payload
  <2>4. \A a \in Returned' : heap'[a] \in Secret
    BY <1>1, <1>7, <1>9 DEF Returned, outputBytes, Secret
  <2> QED
    BY <2>1, <2>3, <2>4 DEF OutputInv
<1>10. CASE layer # Depth
  <2>1. /\ phase' = "output" /\ layer' = layer + 1 /\ pos' = 1 /\ outcome' = outcome
        /\ layer' - 1 = layer
    BY <1>1, <1>10 DEF Return
  <2>2. ASSUME NEW a \in Arrays, heap'[a] \in Secret
        PROVE  Exposed(a)'
    <3>1. CASE a = CallerPayload
      BY <3>1 DEF Exposed, CallerPayload, Payload
    <3>2. CASE a[1] = "payload" /\ a[2] >= layer + 1 /\ a[2] <= Depth
      BY <2>1, <3>2 DEF Exposed, LowestPayload
    <3>3. CASE a[2] = 0 /\ a \notin sources
      BY <1>1, <3>3 DEF Exposed
    <3>4. CASE a[1] \in Secrets(op) /\ a[2] = layer
      BY <1>1, <2>1, <3>4 DEF Exposed
    <3> QED
      BY <1>8, <2>2, <3>1, <3>2, <3>3, <3>4
  <2>3. \A a \in sources' : a[1] \in Secrets(op') /\ a[2] \in 0 .. layer' - 1
    <3> TAKE a \in sources'
    <3>1. a[1] \in Secrets(op) /\ a[2] \in 0 .. layer - 1 /\ a \in sources
      BY <1>1 DEF ArrayInv
    <3> QED
      BY <1>1, <2>1, <3>1
  <2>4. ArrayInv'
    BY <1>1, <1>2, <1>5, <2>1, <2>2, <2>3 DEF ArrayInv, CallerPayload, Payload
  <2>5. Len(Outputs(op)) \in Nat
    BY <1>1, OutputReads DEF OutputsCover
  <2>6. \A f \in Secrets(op') :
          /\ heap'[Array(f, layer' - 1)] # "zero"
          /\ outputBytes(f, heap'[Array(f, layer' - 1)])
    BY <1>1, <1>7, <2>1
  <2>7. pos' <= Len(Outputs(op')) + 1 /\ 1 .. pos' - 1 = {}
    BY <1>1, <2>1, <2>5
  <2> QED
    BY <1>1, <2>1, <2>4, <2>6, <2>7 DEF OutputInv
<1> QED
  BY <1>9, <1>10

LEMMA UnwindArrays ==
    ASSUME CallInv, ErrorInv, ArrayInv, OutputInv, Unwind
    PROVE  ArrayInv' /\ OutputInv'
<1>1. /\ phase = "unwind" /\ layer \in 1 .. Depth /\ Depth \in Nat
      /\ UNCHANGED <<op, sources, copies>>
  BY FacadeAssumption DEF Unwind, CallInv
<1>2. copies = {}
  BY <1>1 DEF ArrayInv
<1>3. CASE layer = Depth
  <2>1. phase' = "done" /\ outcome' # "ok" /\ UNCHANGED <<layer, heap>>
    BY <1>1, <1>3 DEF Unwind, ErrorInv, CORE_ERROR_CODES
  <2>2. ArrayInv'
    BY <1>1, <1>2, <2>1 DEF ArrayInv, Exposed, LowestPayload, CallerPayload, Payload
  <2> QED
    BY <2>1, <2>2 DEF OutputInv
<1>4. CASE layer # Depth
  <2>1. /\ phase' = "unwind" /\ layer' = layer + 1
        /\ heap' = clearSecretBytes(heap, {Payload(layer + 1)})
    BY <1>1, <1>4 DEF Unwind
  <2>2. /\ heap' \in [Arrays -> Contents]
        /\ \A a \in Arrays : /\ a # Payload(layer + 1) => heap'[a] = heap[a]
                             /\ heap'[a] \in Secret => a # Payload(layer + 1)
    <3>1. heap \in [Arrays -> Contents]
      BY DEF ArrayInv
    <3> QED
      BY <2>1, <3>1, Cleared
  <2>3. heap'[CallerPayload] = "secret"
    <3>1. Payload(layer + 1) # CallerPayload /\ CallerPayload \in Arrays
      BY <1>1, <1>4, ArraysAre
    <3> QED
      BY <2>2, <3>1 DEF ArrayInv
  <2>4. ASSUME NEW a \in Arrays, heap'[a] \in Secret
        PROVE  Exposed(a)'
    <3>1. a # Payload(layer + 1) /\ Exposed(a)
      BY <2>2, <2>4 DEF ArrayInv
    <3>2. a[2] \in Nat /\ a = <<a[1], a[2]>>
      BY ArraysAre
    <3>3. CASE a = CallerPayload
      BY <3>3 DEF Exposed, CallerPayload, Payload
    <3>4. CASE a[1] = "payload" /\ a[2] >= layer + 1 /\ a[2] <= Depth
      <4>1. a[2] # layer + 1
        BY <3>1, <3>2, <3>4 DEF Payload
      <4>2. a[2] >= layer' + 1
        BY <1>1, <2>1, <3>2, <3>4, <4>1
      <4> QED
        BY <2>1, <3>4, <4>2 DEF Exposed, LowestPayload
    <3>5. CASE a[2] = 0 /\ a \notin sources
      BY <1>1, <3>5 DEF Exposed
    <3> QED
      BY <1>1, <3>1, <3>3, <3>4, <3>5 DEF Exposed, LowestPayload
  <2>5. \A a \in sources' : a[1] \in Secrets(op') /\ a[2] \in 0 .. layer' - 1
    <3> TAKE a \in sources'
    <3>1. a[1] \in Secrets(op) /\ a[2] \in 0 .. layer - 1
      BY <1>1 DEF ArrayInv
    <3> QED
      BY <1>1, <2>1, <3>1
  <2>6. ArrayInv'
    BY <1>1, <1>2, <2>1, <2>2, <2>3, <2>4, <2>5 DEF ArrayInv, CallerPayload, Payload
  <2> QED
    BY <2>1, <2>6 DEF OutputInv
<1> QED
  BY <1>3, <1>4

LEMMA ArrayStep ==
    ASSUME CallInv, ErrorInv, ArrayInv, OutputInv, [Next]_vars
    PROVE  ArrayInv' /\ OutputInv'
<1>1. CASE \E o \in Operations : Call(o)
  <2>1. /\ phase = "idle" /\ phase' = "input" /\ sources = {} /\ copies = {}
        /\ UNCHANGED <<layer, heap, sources, copies, outcome>>
    BY <1>1 DEF Call, ArrayInv
  <2>2. ArrayInv'
    BY <2>1 DEF ArrayInv, Exposed, LowestPayload, CallerPayload, Payload
  <2> QED
    BY <2>1, <2>2 DEF OutputInv
<1>2. CASE UNCHANGED vars
  BY <1>2 DEF vars, ArrayInv, OutputInv, Exposed, LowestPayload, Returned, CallerPayload,
              Payload
<1> QED
  BY <1>1, <1>2, InputArrays, PassDownArrays, BackendArrays, BackendThrowArrays,
     ReadOutputArrays, ObtainArrays, CopyArrays, ReturnArrays, UnwindArrays
     DEF Next, Step, Ended

-----------------------------------------------------------------------------
(* Theorems *)

LEMMA Invariant == Spec => []Inv
<1>1. Init => Inv
  <2> SUFFICES ASSUME Init PROVE Inv
    OBVIOUS
  <2>1. CallInv /\ ErrorInv
    BY FacadeAssumption DEF Init, CallInv, ErrorInv
  <2>2. ReadInv
    <3>1. Nothing \in [Fields -> Values \cup {"caller"}]
      BY DEF Nothing, Values
    <3>2. 0 \in 0 .. Depth /\ Depth - 1 \in 0 .. Depth
      BY FacadeAssumption
    <3> QED
      BY <3>1, <3>2 DEF Init, ReadInv
  <2>3. heap \in [Arrays -> Contents] /\ heap[CallerPayload] = "secret"
    BY ArraysAre DEF Init, Contents, Secret
  <2>4. \A a \in Arrays : heap[a] \in Secret => Exposed(a)
    BY DEF Init, Exposed, Secret
  <2>5. ArrayInv /\ OutputInv
    BY <2>3, <2>4 DEF Init, ArrayInv, OutputInv
  <2> QED
    BY <2>1, <2>2, <2>5 DEF Inv
<1>2. Inv /\ [Next]_vars => Inv'
  BY CallStep, ReadStep, ErrorStep, ArrayStep DEF Inv
<1> QED
  BY <1>1, <1>2, PTL DEF Spec

(* However many facades are stacked and whatever the caller's objects answer, the backend *)
(* is called with the well-formed request that the outermost facade checked, and with the  *)
(* caller's own byte arrays; no inner facade refuses it (dtoField, snapshot* functions,    *)
(* invoke).                                                                                 *)
THEOREM CheckedRequest == Spec => []BackendGetsTheCheckedRequest
<1>1. Inv => BackendGetsTheCheckedRequest
  BY DEF Inv, ReadInv, Checked, BackendGetsTheCheckedRequest
<1> QED
  BY <1>1, Invariant, PTL

(* However many facades an error passes, the caller catches the code that the first       *)
(* throwing step gave (normalizeOperationError).                                          *)
THEOREM FirstError == Spec => []ErrorIsTheFirstThrown
<1>1. Inv => ErrorIsTheFirstThrown
  BY DEF Inv, ErrorInv, ErrorIsTheFirstThrown
<1> QED
  BY <1>1, Invariant, PTL

(* However many facades are stacked and wherever a call fails, no facade leaves secret    *)
(* bytes behind and none erases what the caller owns (outputSecretReadResult, sign).      *)
THEOREM WipedExactly == Spec => []WipesExactlyItsCopies
<1>1. Inv => WipesExactlyItsCopies
  <2> SUFFICES ASSUME Inv PROVE WipesExactlyItsCopies
    OBVIOUS
  <2>1. CallInv /\ ArrayInv /\ OutputInv
    BY DEF Inv
  <2>2. ASSUME phase = "done", NEW a \in Arrays, heap[a] \in Secret
        PROVE  \/ a = CallerPayload
               \/ outcome = "ok" /\ a \in Returned
               \/ a[2] = 0 /\ a \notin sources
    <3>1. Exposed(a) /\ a[2] \in Nat
      BY <2>1, <2>2, ArraysAre DEF ArrayInv
    <3>2. LowestPayload = Depth + 1 /\ Depth \in Nat
      BY <2>1, <2>2, FacadeAssumption DEF CallInv, LowestPayload
    <3>3. ~(a[2] >= LowestPayload /\ a[2] <= Depth)
      BY <3>1, <3>2
    <3> QED
      BY <2>2, <3>1, <3>3 DEF Exposed
  <2> QED
    BY <2>1, <2>2 DEF WipesExactlyItsCopies, ArrayInv, OutputInv
<1> QED
  BY <1>1, Invariant, PTL

=============================================================================
