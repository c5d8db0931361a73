--------------------------- MODULE LearnEthProofs ----------------------------
(***************************************************************************)
(* Proofs about the two parts of learneth: OpenEcc, for any number of      *)
(* objects, messages and keys, and, at the end, the decoder's transfer, for *)
(* chunks of any length.                                                   *)
(***************************************************************************)
EXTENDS OpenEcc, DatumDecoder, SequenceTheorems, TLAPS

\* Numbers that have been generated, or imported from elsewhere.
Known(k) == k \in 0..made

\* Halves of keys, and what the program has of them.  A public half is always
\* a generated one, and each is in one object only.
KeysSound ==
    /\ made <= MaxKeys
    /\ priv_key # NoString => Known(priv_key)
    /\ \A o \in Objects : HasKey(o) =>
          /\ Known(priv_key_[o].priv)
          /\ priv_key_[o].pub \in 1..made
    /\ \A o, p \in Objects : o # p /\ HasKey(o) /\ HasKey(p) =>
          priv_key_[o].pub # priv_key_[p].pub

\* A secret is made of a number that is the object's public half if and only
\* if that was not imported.
SecretSound(o) ==
    shared[o] # NoSecret =>
        /\ shared[o].mine \in 1..made
        /\ \E k \in 0..made :
              /\ shared[o].secret = {k, shared[o].theirs}
              /\ k = shared[o].mine <=> ~shared[o].imported

\* Secrets of different objects go back to different public halves.
SecretsDiffer ==
    \A o, p \in Objects : o # p /\ shared[o] # NoSecret =>
        /\ HasKey(p) => shared[o].mine # priv_key_[p].pub
        /\ shared[p] # NoSecret => shared[o].mine # shared[p].mine

\* The inductive invariant.
IInv ==
    /\ TypeOK
    /\ KeysSound
    /\ OwnSignature
    /\ \A o \in Objects : SecretSound(o)
    /\ SecretsDiffer

LEMMA InitInv == Init => IInv
<1> SUFFICES ASSUME Init PROVE IInv
    OBVIOUS
<1> USE EccAssumption
<1>1. TypeOK
  <2>1. priv_key_ \in [Objects -> [priv : Numbers, pub : Numbers] \cup {NoKey, Unset}]
    BY DEF Init
  <2>2. shared \in [Objects -> [secret : SUBSET Numbers, tail : Tails, mine : Numbers,
                 theirs : Numbers, imported : BOOLEAN] \cup {NoSecret}]
    BY DEF Init
  <2>3. made \in Numbers
    BY DEF Init, Numbers
  <2>4. step \in 0..Len(Script) + 1
    <3>1. Len(Script) = 15
      BY DEF Script
    <3> QED
      BY <3>1 DEF Init
  <2>5. imported \in [Objects -> BOOLEAN] /\ crashed \in BOOLEAN /\ verdict \in BOOLEAN
    BY DEF Init
  <2> QED
    BY <2>1, <2>2, <2>3, <2>4, <2>5 DEF Init, TypeOK
<1>2. \A o \in Objects : ~HasKey(o) /\ shared[o] = NoSecret
    BY DEF Init, HasKey
<1>3. KeysSound
    BY <1>2 DEF Init, KeysSound, NoString
<1>4. OwnSignature /\ SecretsDiffer /\ \A o \in Objects : SecretSound(o)
    BY <1>2 DEF OwnSignature, SecretsDiffer, SecretSound
<1> QED
    BY <1>1, <1>3, <1>4 DEF IInv

-----------------------------------------------------------------------------
(***************************************************************************)
(* Each operation preserves the invariant, whatever step does.             *)
(***************************************************************************)

\* Facts about keys that the operations need.
LEMMA KeyFacts ==
    ASSUME IInv, NEW o \in Objects
    PROVE  /\ HasKey(o) => priv_key_[o] \in [priv : Numbers, pub : Numbers]
           /\ NoKey \notin [priv : Numbers, pub : Numbers]
           /\ Unset \notin [priv : Numbers, pub : Numbers]
           /\ made \in Nat /\ MaxKeys \in Nat /\ made <= MaxKeys
<1>1. -1 \notin Numbers /\ -2 \notin Numbers /\ MaxKeys \in Nat
    BY EccAssumption DEF Numbers
<1>2. NoKey.priv = -1 /\ Unset.priv = -2
    BY DEF NoKey, Unset
<1> QED
    BY <1>1, <1>2 DEF IInv, TypeOK, KeysSound, HasKey, Numbers

\* A step that replaces one object's key by one whose public half is new.
LEMMA NewKey ==
    ASSUME IInv, NEW o \in Objects, made < MaxKeys,
           NEW k \in 0..made + 1,
           made' = made + 1,
           priv_key_' = [priv_key_ EXCEPT ![o] = [priv |-> k, pub |-> made + 1]],
           imported' = [imported EXCEPT ![o] = (k # made + 1)],
           UNCHANGED <<strings, shared, verdict, crashed>>,
           step' \in 0..Len(Script) + 1
    PROVE  IInv'
<1> DEFINE key == [priv |-> k, pub |-> made + 1]
<1>1. made \in Nat /\ MaxKeys \in Nat /\ made + 1 <= MaxKeys
    BY KeyFacts
<1>2. key \in [priv : Numbers, pub : Numbers]
    BY <1>1 DEF Numbers
<1>3. TypeOK'
  <2>1. priv_key_' \in [Objects -> [priv : Numbers, pub : Numbers] \cup {NoKey, Unset}]
    BY <1>2 DEF IInv, TypeOK
  <2>2. made' \in Numbers
    BY <1>1 DEF Numbers
  <2>3. imported' \in [Objects -> BOOLEAN]
    BY DEF IInv, TypeOK
  <2> QED
    BY <2>1, <2>2, <2>3 DEF IInv, TypeOK, strings
<1>4. /\ HasKey(o)' /\ priv_key_'[o] = key /\ imported'[o] = (k # made + 1)
      /\ \A p \in Objects \ {o} : /\ HasKey(p)' <=> HasKey(p)
                                  /\ priv_key_'[p] = priv_key_[p]
                                  /\ imported'[p] = imported[p]
    BY <1>2, KeyFacts DEF IInv, TypeOK, HasKey
<1>5. KeysSound'
  <2>1. \A p \in Objects \ {o} : HasKey(p) =>
            /\ priv_key_[p].priv \in 0..made /\ priv_key_[p].pub \in 1..made
    BY DEF IInv, KeysSound, Known
  <2>2. \A p, u \in Objects : p # u /\ HasKey(p)' /\ HasKey(u)' =>
            priv_key_'[p].pub # priv_key_'[u].pub
    BY <1>1, <1>4, <2>1 DEF IInv, KeysSound
  <2>3. \A p \in Objects : HasKey(p)' =>
            priv_key_'[p].priv \in 0..made + 1 /\ priv_key_'[p].pub \in 1..made + 1
    BY <1>1, <1>4, <2>1
  <2>4. priv_key' # NoString => priv_key' \in 0..made + 1
    BY <1>1 DEF IInv, KeysSound, Known, strings
  <2> QED
    BY <1>1, <2>2, <2>3, <2>4 DEF KeysSound, Known
<1>6. OwnSignature'
  <2> SUFFICES ASSUME NEW p \in Objects, HasKey(p)'
               PROVE  priv_key_'[p].priv = priv_key_'[p].pub <=> ~imported'[p]
    BY DEF OwnSignature
  <2>1. CASE p = o
    <3>1. priv_key_'[p].priv = k /\ priv_key_'[p].pub = made + 1
      BY <1>4, <2>1
    <3>2. imported'[p] = (k # made + 1)
      BY <1>4, <2>1
    <3> QED
      BY <3>1, <3>2, Zenon
  <2>2. CASE p # o
    BY <1>4, <2>2 DEF IInv, OwnSignature
  <2> QED
    BY <2>1, <2>2
<1>7. \A p \in Objects : SecretSound(p)'
    BY <1>1 DEF IInv, SecretSound
<1>8. SecretsDiffer'
  <2> SUFFICES ASSUME NEW p \in Objects, NEW u \in Objects, p # u,
                      shared[p] # NoSecret
               PROVE  /\ HasKey(u)' => shared[p].mine # priv_key_'[u].pub
                      /\ shared[u] # NoSecret => shared[p].mine # shared[u].mine
    BY DEF SecretsDiffer
  <2>1. shared[p].mine \in 1..made
    BY DEF IInv, SecretSound
  <2>2. ASSUME HasKey(u)' PROVE shared[p].mine # priv_key_'[u].pub
    <3>1. CASE u = o
      BY <1>1, <1>4, <2>1, <3>1
    <3>2. CASE u # o
      BY <1>4, <2>2, <3>2 DEF IInv, SecretsDiffer
    <3> QED
      BY <3>1, <3>2
  <2>3. shared[u] # NoSecret => shared[p].mine # shared[u].mine
    BY DEF IInv, SecretsDiffer
  <2> QED
    BY <2>2, <2>3
<1> QED
    BY <1>3, <1>5, <1>6, <1>7, <1>8 DEF IInv

\* A step that leaves keys and secrets alone.
LEMMA KeysKept ==
    ASSUME IInv, TypeOK', UNCHANGED <<priv_key_, made, shared, imported>>,
           priv_key' # NoString => priv_key' \in 0..made
    PROVE  IInv'
<1>1. KeysSound' /\ OwnSignature'
    BY DEF IInv, KeysSound, OwnSignature, Known, HasKey
<1>2. SecretsDiffer' /\ \A p \in Objects : SecretSound(p)'
    BY DEF IInv, SecretsDiffer, SecretSound, HasKey
<1> QED
    BY <1>1, <1>2 DEF IInv

LEMMA initEccCurvesInv ==
    ASSUME IInv, NEW o \in Objects, initEccCurves(o), step' \in 0..Len(Script) + 1
    PROVE  IInv'
<1>1. made \in Nat /\ MaxKeys \in Nat /\ made <= MaxKeys
    BY KeyFacts
<1>2. CASE made < MaxKeys /\ made' = made + 1
           /\ priv_key_' = [priv_key_ EXCEPT ![o] = [priv |-> made + 1, pub |-> made + 1]]
  <2>1. imported' = [imported EXCEPT ![o] = (made + 1 # made + 1)]
    BY DEF initEccCurves
  <2>2. made + 1 \in 0..made + 1
    BY <1>1
  <2> QED
    BY <1>2, <2>1, <2>2, NewKey DEF initEccCurves
<1>3. CASE made = 0 /\ made' = made
           /\ priv_key_' = [priv_key_ EXCEPT ![o] = NoKey]
  <2>1. \A p \in Objects : ~HasKey(p) /\ shared[p] = NoSecret
    BY <1>3 DEF IInv, KeysSound, SecretSound
  <2>2. \A p \in Objects : ~HasKey(p)' /\ shared'[p] = NoSecret
    BY <1>3, <2>1 DEF IInv, TypeOK, HasKey, initEccCurves
  <2>3. TypeOK'
    BY <1>3 DEF IInv, TypeOK, initEccCurves, strings
  <2>4. KeysSound' /\ OwnSignature'
    BY <1>3, <2>2 DEF IInv, KeysSound, OwnSignature, Known, initEccCurves, strings
  <2>5. SecretsDiffer' /\ \A p \in Objects : SecretSound(p)'
    BY <2>2 DEF SecretsDiffer, SecretSound
  <2> QED
    BY <2>3, <2>4, <2>5 DEF IInv
<1> QED
    BY <1>2, <1>3 DEF initEccCurves

LEMMA importPrivKeyInv ==
    ASSUME IInv, NEW o \in Objects, NEW k \in 0..made, importPrivKey(o, k),
           step' \in 0..Len(Script) + 1
    PROVE  IInv'
<1>1. made \in Nat /\ MaxKeys \in Nat /\ made <= MaxKeys
    BY KeyFacts
<1>2. CASE HasKey(o)
  <2>1. k \in 0..made + 1 /\ k # made + 1
    BY <1>1
  <2>2. imported' = [imported EXCEPT ![o] = (k # made + 1)]
    BY <1>2, <2>1 DEF importPrivKey
  <2> QED
    BY <1>2, <2>1, <2>2, NewKey DEF importPrivKey
<1>3. CASE ~HasKey(o)
  <2>1. UNCHANGED <<priv_key_, made, shared, imported, priv_key>>
    BY <1>3 DEF importPrivKey, strings
  <2>2. TypeOK'
    BY <1>3, <2>1 DEF IInv, TypeOK, importPrivKey, strings
  <2> QED
    BY <2>1, <2>2, KeysKept DEF IInv, KeysSound, Known
<1> QED
    BY <1>2, <1>3

LEMMA ReadersInv ==
    ASSUME IInv, NEW o \in Objects, NEW m \in Messages, step' \in 0..Len(Script) + 1,
           \/ dumpPrivKey(o) \/ getPubKey(o) \/ signMessage(o, m)
           \/ verifyMessage(o, m, pub_key)
    PROVE  IInv'
<1>1. UNCHANGED <<priv_key_, made, shared, imported>>
    BY DEF dumpPrivKey, getPubKey, signMessage, verifyMessage, strings
<1>2. HasKey(o) => priv_key_[o].priv \in Numbers /\ priv_key_[o].pub \in Numbers
    BY KeyFacts
<1>3. CASE dumpPrivKey(o)
  <2>1. TypeOK'
    BY <1>1, <1>2, <1>3 DEF IInv, TypeOK, dumpPrivKey
  <2>2. priv_key' # NoString => priv_key' \in 0..made
    BY <1>3 DEF IInv, KeysSound, Known, dumpPrivKey
  <2> QED
    BY <1>1, <2>1, <2>2, KeysKept
<1>4. CASE getPubKey(o) \/ signMessage(o, m) \/ verifyMessage(o, m, pub_key)
  <2>1. TypeOK'
    <3>1. CASE getPubKey(o)
      BY <1>2, <3>1 DEF IInv, TypeOK, getPubKey
    <3>2. CASE signMessage(o, m)
      BY <1>2, <3>2 DEF IInv, TypeOK, signMessage
    <3>3. CASE verifyMessage(o, m, pub_key)
      <4>1. verdict' \in BOOLEAN
        BY <3>3 DEF verifyMessage, HasKey
      <4> QED
        BY <3>3, <4>1 DEF IInv, TypeOK, verifyMessage, strings
    <3> QED
      BY <1>4, <3>1, <3>2, <3>3
  <2>2. priv_key' = priv_key
    BY <1>4 DEF getPubKey, signMessage, verifyMessage, strings
  <2> QED
    BY <1>1, <2>1, <2>2, KeysKept DEF IInv, KeysSound, Known
<1> QED
    BY <1>3, <1>4

LEMMA calcECDHKeyInv ==
    ASSUME IInv, NEW o \in Objects, NEW point \in Numbers, calcECDHKey(o, point),
           step' \in 0..Len(Script) + 1
    PROVE  IInv'
<1>1. UNCHANGED <<priv_key_, made, strings, verdict, imported>>
    BY DEF calcECDHKey
<1>2. CASE HasKey(o)
  <2>0. PICK tail \in Tails :
            shared' = [shared EXCEPT ![o] =
                [secret |-> {priv_key_[o].priv, point}, tail |-> tail,
                 mine |-> priv_key_[o].pub, theirs |-> point, imported |-> imported[o]]]
    BY <1>2 DEF calcECDHKey
  <2> DEFINE new == [secret |-> {priv_key_[o].priv, point}, tail |-> tail,
                     mine |-> priv_key_[o].pub, theirs |-> point, imported |-> imported[o]]
  <2>1. shared' = [shared EXCEPT ![o] = new] /\ crashed' = crashed
    BY <1>2, <2>0 DEF calcECDHKey
  <2>2. priv_key_[o].priv \in Numbers /\ priv_key_[o].pub \in Numbers
    BY <1>2, KeyFacts
  <2>3. imported[o] \in BOOLEAN
    BY DEF IInv, TypeOK
  <2>4. new \in [secret : SUBSET Numbers, tail : Tails, mine : Numbers,
                 theirs : Numbers, imported : BOOLEAN]
    BY <2>2, <2>3
  <2>5. shared' \in [Objects -> [secret : SUBSET Numbers, tail : Tails, mine : Numbers,
                 theirs : Numbers, imported : BOOLEAN] \cup {NoSecret}]
    BY <2>1, <2>4 DEF IInv, TypeOK
  <2>6. TypeOK'
    BY <1>1, <2>1, <2>5 DEF IInv, TypeOK, strings
  <2>7. KeysSound' /\ OwnSignature'
    BY <1>1 DEF IInv, KeysSound, OwnSignature, Known, HasKey, strings
  <2>8. shared'[o] = new /\ \A p \in Objects \ {o} : shared'[p] = shared[p]
    BY <2>1 DEF IInv, TypeOK
  <2>9. \A p \in Objects : SecretSound(p)'
    <3>1. SecretSound(o)'
      <4>1. priv_key_[o].priv \in 0..made /\ priv_key_[o].pub \in 1..made
        BY <1>2 DEF IInv, KeysSound, Known
      <4>2. priv_key_[o].priv = priv_key_[o].pub <=> ~imported[o]
        BY <1>2 DEF IInv, OwnSignature
      <4> QED
        BY <1>1, <2>8, <4>1, <4>2 DEF SecretSound
    <3>2. \A p \in Objects \ {o} : SecretSound(p)'
      BY <1>1, <2>8 DEF IInv, SecretSound
    <3> QED
      BY <3>1, <3>2
  <2>10. SecretsDiffer'
    BY <1>1, <1>2, <2>8 DEF IInv, SecretsDiffer, KeysSound, HasKey
  <2> QED
    BY <2>6, <2>7, <2>9, <2>10 DEF IInv
<1>3. CASE ~HasKey(o)
  <2>1. shared' = [shared EXCEPT ![o] = NoSecret] /\ crashed' \in BOOLEAN
    BY <1>3 DEF calcECDHKey
  <2>2. shared' \in [Objects -> [secret : SUBSET Numbers, tail : Tails, mine : Numbers,
                 theirs : Numbers, imported : BOOLEAN] \cup {NoSecret}]
    BY <2>1 DEF IInv, TypeOK
  <2>3. TypeOK'
    BY <1>1, <2>1, <2>2 DEF IInv, TypeOK, strings
  <2>4. shared'[o] = NoSecret /\ \A p \in Objects \ {o} : shared'[p] = shared[p]
    BY <2>1 DEF IInv, TypeOK
  <2>5. KeysSound' /\ OwnSignature'
    BY <1>1 DEF IInv, KeysSound, OwnSignature, Known, HasKey, strings
  <2>6. SecretsDiffer' /\ \A p \in Objects : SecretSound(p)'
    BY <1>1, <2>4 DEF IInv, SecretsDiffer, SecretSound, HasKey
  <2> QED
    BY <2>3, <2>5, <2>6 DEF IInv
<1> QED
    BY <1>2, <1>3

-----------------------------------------------------------------------------
LEMMA NextInv == IInv /\ [Next]_vars => IInv'
<1> SUFFICES ASSUME IInv, [Next]_vars PROVE IInv'
    OBVIOUS
<1>1. /\ ForeignNumber \in 0..made /\ ForeignPoint \in Numbers
      /\ "message" \in Messages /\ "message_error" \in Messages
      /\ priv_key # NoString => priv_key \in 0..made
      /\ pub_key # NoString => pub_key \in Numbers
    BY EccAssumption, KeyFacts DEF IInv, TypeOK, KeysSound, Known, ForeignNumber,
        ForeignPoint, Numbers
<1>2. CASE TestOpenEcc
  <2>1. Len(Script) = 15
    BY DEF Script
  <2>2. step' \in 0..Len(Script) + 1 /\ step \in 1..Len(Script)
    BY <1>2, <2>1 DEF TestOpenEcc
  <2>3. open_ecc \in Objects
    BY EccAssumption DEF open_ecc
  <2>4. PICK call : TestCall(open_ecc, call)
    BY <1>2 DEF TestOpenEcc
  <2>5. CASE initEccCurves(open_ecc)
    BY <2>2, <2>3, <2>5, initEccCurvesInv
  <2>6. CASE dumpPrivKey(open_ecc) \/ getPubKey(open_ecc) \/ signMessage(open_ecc, "message")
            \/ verifyMessage(open_ecc, "message", pub_key)
            \/ verifyMessage(open_ecc, "message_error", pub_key)
    BY <1>1, <2>2, <2>3, <2>6, ReadersInv
  <2>7. CASE importPrivKey(open_ecc, ForeignNumber)
    BY <1>1, <2>2, <2>3, <2>7, importPrivKeyInv
  <2>8. CASE calcECDHKey(open_ecc, ForeignPoint)
    BY <1>1, <2>2, <2>3, <2>8, calcECDHKeyInv
  <2> QED
    BY <2>4, <2>5, <2>6, <2>7, <2>8 DEF TestCall
<1>3. CASE OtherProgram
  <2>1. step' \in 0..Len(Script) + 1
    BY <1>3 DEF OtherProgram, IInv, TypeOK
  <2>2. PICK o \in Objects : initEccCurves(o) \/ AnyCall(o)
    BY <1>3 DEF OtherProgram
  <2>3. CASE initEccCurves(o)
    BY <2>1, <2>3, initEccCurvesInv
  <2>4. CASE dumpPrivKey(o) \/ getPubKey(o)
    BY <1>1, <2>1, <2>4, ReadersInv
  <2>5. CASE \E m \in Messages : signMessage(o, m) \/ verifyMessage(o, m, pub_key)
    BY <2>1, <2>5, ReadersInv
  <2>6. CASE \E k \in {ForeignNumber, priv_key} \ {NoString} : importPrivKey(o, k)
    BY <1>1, <2>1, <2>6, importPrivKeyInv
  <2>7. CASE pub_key # NoString /\ calcECDHKey(o, pub_key)
    BY <1>1, <2>1, <2>7, calcECDHKeyInv
  <2> QED
    BY <2>2, <2>3, <2>4, <2>5, <2>6, <2>7 DEF AnyCall
<1>4. CASE UNCHANGED vars
  <2>1. TypeOK'
    BY <1>4 DEF IInv, TypeOK, vars, strings
  <2> QED
    BY <1>1, <1>4, <2>1, KeysKept DEF vars, strings
<1> QED
    BY <1>2, <1>3, <1>4 DEF Next

-----------------------------------------------------------------------------
(***************************************************************************)
(* Theorems.                                                               *)
(***************************************************************************)

\* The inductive invariant holds in every reachable state.
THEOREM Invariance == Spec => []IInv
<1> QED
    BY InitInv, NextInv, PTL DEF Spec

\* All variables have their types; no number is used that neither initEccCurves
\* has generated nor the program got from elsewhere.
THEOREM TypeCorrect == Spec => []TypeOK
<1>1. IInv => TypeOK
    BY DEF IInv
<1> QED
    BY <1>1, Invariance, PTL

\* An object accepts its own signatures exactly as long as its private half
\* has not been imported, through any sequence of calls on any objects.
THEOREM OwnSignatureTheorem == Spec => []OwnSignature
<1>1. IInv => OwnSignature
    BY DEF IInv
<1> QED
    BY <1>1, Invariance, PTL

\* Two objects that have used each other's public key have the same secret,
\* unless one of them had imported its private half by then; the strings that
\* calcECDHKey returned to them are the same if moreover the stack bytes behind
\* the secrets were.
THEOREM AgreementTheorem == Spec => []Agreement
<1>1. ASSUME IInv PROVE Agreement
  <2> SUFFICES ASSUME NEW a \in Objects, NEW b \in Objects, a # b, Exchanged(a, b)
               PROVE  shared[a].secret = shared[b].secret
                          <=> ~shared[a].imported /\ ~shared[b].imported
    BY DEF Agreement, ecdh_key
  <2>1. SecretSound(a) /\ SecretSound(b)
    BY <1>1 DEF IInv
  <2>2. PICK k : /\ shared[a].secret = {k, shared[b].mine}
                 /\ k = shared[a].mine <=> ~shared[a].imported
    BY <2>1 DEF SecretSound, Exchanged
  <2>3. PICK l : /\ shared[b].secret = {l, shared[a].mine}
                 /\ l = shared[b].mine <=> ~shared[b].imported
    BY <2>1 DEF SecretSound, Exchanged
  <2>4. shared[a].mine # shared[b].mine
    BY <1>1 DEF IInv, SecretsDiffer, Exchanged
  <2>5. {k, shared[b].mine} = {l, shared[a].mine}
            <=> k = shared[a].mine /\ l = shared[b].mine
    BY <2>4
  <2> QED
    BY <2>2, <2>3, <2>5
<1>2. IInv => Agreement
    BY <1>1
<1> QED
    BY <1>2, Invariance, PTL

-----------------------------------------------------------------------------
(***************************************************************************)
(* TestOpenEcc, call by call.                                              *)
(***************************************************************************)

\* At each call of the test: how the halves of the key fit, what has been
\* signed with it, and what verifyMessage has returned.
OwnSigned ==
    signature = [by |-> priv_key_[open_ecc].priv, of |-> "message"]

TestSound ==
    HasKey(open_ecc) =>
        /\ step \in 2..8 => priv_key_[open_ecc].priv = priv_key_[open_ecc].pub
        /\ step \in 9..16 => priv_key_[open_ecc].priv # priv_key_[open_ecc].pub
        /\ step \in 4..8 \cup 10..16 => OwnSigned
        /\ TestVerdicts

LEMMA TestSoundNext == IInv /\ TestSound /\ [Next]_vars => TestSound'
<1> SUFFICES ASSUME IInv, TestSound, [Next]_vars, HasKey(open_ecc)'
             PROVE  /\ step' \in 2..8 => (priv_key_[open_ecc].priv = priv_key_[open_ecc].pub)'
                    /\ step' \in 9..16 => (priv_key_[open_ecc].priv # priv_key_[open_ecc].pub)'
                    /\ step' \in 4..8 \cup 10..16 => OwnSigned'
                    /\ step' = 7 => verdict'
                    /\ step' \in {8, 11, 13} => ~verdict'
    BY DEF TestSound, TestVerdicts
<1> DEFINE key == priv_key_[open_ecc]
<1>o. open_ecc \in Objects /\ "message" \in Messages /\ "message_error" \in Messages
    BY EccAssumption DEF open_ecc
<1>1. CASE TestOpenEcc
  <2>1. Len(Script) = 15
    BY DEF Script
  <2>2. step \in 1..15 /\ step' = step + 1 /\ TestCall(open_ecc, Script[step])
    BY <1>1, <2>1 DEF TestOpenEcc
  <2>3. ASSUME UNCHANGED priv_key_ PROVE HasKey(open_ecc)
    BY <2>3 DEF HasKey
  <2>4. CASE step = 1
    <3>1. initEccCurves(open_ecc)
      BY <2>2, <2>4 DEF Script, TestCall
    <3>2. priv_key_' = [priv_key_ EXCEPT ![open_ecc] = [priv |-> made + 1, pub |-> made + 1]]
      BY <1>o, <3>1 DEF IInv, TypeOK, initEccCurves, HasKey
    <3>3. key'.priv = key'.pub
      BY <1>o, <3>2 DEF IInv, TypeOK
    <3> QED
      BY <2>2, <2>4, <3>3
  <2>5. CASE step \in {3, 4, 9, 11}
    <3>1. signMessage(open_ecc, "message")
      BY <2>2, <2>5 DEF Script, TestCall
    <3>2. UNCHANGED priv_key_ /\ HasKey(open_ecc) /\ OwnSigned'
      BY <2>3, <3>1 DEF signMessage, OwnSigned
    <3> QED
      BY <2>2, <2>5, <3>2 DEF TestSound
  <2>6. CASE step \in {6, 10, 12}
    <3>1. verifyMessage(open_ecc, "message", pub_key)
      BY <2>2, <2>6 DEF Script, TestCall
    <3>2. UNCHANGED <<priv_key_, signature>> /\ HasKey(open_ecc)
      BY <2>3, <3>1 DEF verifyMessage, strings
    <3>3. OwnSigned
      BY <2>6, <3>2 DEF TestSound
    <3>4. OwnSigned'
      BY <3>2, <3>3 DEF OwnSigned
    <3>5. verdict' <=> key.priv = key.pub
      <4>1. signature = [by |-> key.pub, of |-> "message"] <=> key.priv = key.pub
        BY <3>3 DEF OwnSigned
      <4> QED
        BY <3>1, <3>2, <4>1 DEF verifyMessage
    <3> QED
      BY <2>2, <2>6, <3>2, <3>4, <3>5 DEF TestSound
  <2>7. CASE step = 7
    <3>1. verifyMessage(open_ecc, "message_error", pub_key)
      BY <2>2, <2>7 DEF Script, TestCall
    <3>2. UNCHANGED <<priv_key_, signature>> /\ HasKey(open_ecc)
      BY <2>3, <3>1 DEF verifyMessage, strings
    <3>3. OwnSigned
      BY <2>7, <3>2 DEF TestSound
    <3>4. ~verdict' /\ OwnSigned'
      BY <3>1, <3>2, <3>3 DEF verifyMessage, OwnSigned
    <3> QED
      BY <2>2, <2>7, <3>2, <3>4 DEF TestSound
  <2>8. CASE step = 8
    <3>1. importPrivKey(open_ecc, ForeignNumber)
      BY <2>2, <2>8 DEF Script, TestCall
    <3>2. priv_key_' = [priv_key_ EXCEPT ![open_ecc] = [priv |-> 0, pub |-> made + 1]]
      BY <3>1 DEF importPrivKey, HasKey, ForeignNumber
    <3>3. key'.priv # key'.pub
      BY <1>o, <3>2, KeyFacts DEF IInv, TypeOK
    <3> QED
      BY <2>2, <2>8, <3>3
  <2>9. CASE step \in {2, 5, 13, 14, 15}
    <3>1. \/ dumpPrivKey(open_ecc) \/ getPubKey(open_ecc)
          \/ calcECDHKey(open_ecc, ForeignPoint)
      BY <2>2, <2>9 DEF Script, TestCall
    <3>2. UNCHANGED <<priv_key_, signature>> /\ HasKey(open_ecc)
      BY <2>3, <3>1 DEF dumpPrivKey, getPubKey, calcECDHKey, strings
    <3> QED
      BY <2>2, <2>9, <3>2 DEF TestSound, OwnSigned
  <2> QED
    BY <2>2, <2>4, <2>5, <2>6, <2>7, <2>8, <2>9
<1>2. CASE OtherProgram
    BY <1>2 DEF OtherProgram
<1>3. CASE UNCHANGED vars
    BY <1>3 DEF vars, strings, HasKey, OwnSigned, TestSound, TestVerdicts
<1> QED
    BY <1>1, <1>2, <1>3 DEF Next

\* verifyMessage accepts TestOpenEcc's own signature, rejects it for another
\* message, and after the import rejects what the same object has signed.
THEOREM TestVerdictsTheorem == Spec => []TestVerdicts
<1>1. Init => TestSound
    BY DEF Init, TestSound, TestVerdicts
<1>2. TestSound => TestVerdicts
    BY DEF TestSound, TestVerdicts
<1> QED
    BY <1>1, <1>2, TestSoundNext, Invariance, PTL DEF Spec
-----------------------------------------------------------------------------
(***************************************************************************)
(* The decoder.  It shares no state with the key wrapper.                  *)
(***************************************************************************)

\* A sequence cut in two is its two parts.
LEMMA CutInTwo ==
    ASSUME NEW S, NEW s \in Seq(S), NEW n \in 1..Len(s)
    PROVE  /\ SubSeq(s, 1, n) \in Seq(S) /\ SubSeq(s, n + 1, Len(s)) \in Seq(S)
           /\ SubSeq(s, 1, n) \o SubSeq(s, n + 1, Len(s)) = s
<1> DEFINE front == SubSeq(s, 1, n)
           back == SubSeq(s, n + 1, Len(s))
           both == front \o back
<1>1. n \in Nat /\ Len(s) \in Nat
    OBVIOUS
<1>2. front \in Seq(S) /\ Len(front) = n /\ \A i \in 1..n : front[i] = s[i]
    BY <1>1, SubSeqProperties
<1>3. back \in Seq(S) /\ Len(back) = Len(s) - n
      /\ \A i \in 1..Len(s) - n : back[i] = s[n + i]
    BY <1>1, SubSeqProperties
<1> HIDE DEF front, back
<1>4. /\ both \in Seq(S)
      /\ Len(both) = Len(front) + Len(back)
      /\ \A i \in 1..Len(front) + Len(back) :
            both[i] = IF i <= Len(front) THEN front[i] ELSE back[i - Len(front)]
    BY <1>2, <1>3, ConcatProperties, Zenon
<1> HIDE DEF both
<1>5. Len(s) = Len(both) /\ \A i \in 1..Len(s) : s[i] = both[i]
  <2>1. Len(s) = Len(both) /\ Len(s) = Len(front) + Len(back)
    BY <1>1, <1>2, <1>3, <1>4
  <2> SUFFICES ASSUME NEW i \in 1..Len(s) PROVE s[i] = both[i]
    BY <2>1, Zenon
  <2>2. both[i] = IF i <= n THEN front[i] ELSE back[i - n]
    BY <1>2, <1>4, <2>1, Zenon
  <2>3. CASE i <= n
    BY <1>1, <1>2, <2>2, <2>3
  <2>4. CASE ~(i <= n)
    BY <1>1, <1>3, <2>2, <2>4
  <2> QED
    BY <2>3, <2>4
<1>6. s = both
    BY <1>4, <1>5, SeqEqual, Zenon
<1> QED
    BY <1>2, <1>3, <1>6, Zenon DEF front, back, both

\* Appended piece by piece or at once, it is the same.
Piecewise(r, s, t) == (r \o s) \o t = r \o (s \o t)

LEMMA AlwaysPiecewise ==
    ASSUME NEW S, NEW r \in Seq(S), NEW s \in Seq(S), NEW t \in Seq(S)
    PROVE  Piecewise(r, s, t)
BY ConcatAssociative DEF Piecewise

\* Moving the first n elements of s behind r.
LEMMA MoveFront ==
    ASSUME NEW S, NEW r \in Seq(S), NEW s \in Seq(S), NEW n \in 1..Len(s)
    PROVE  /\ r \o SubSeq(s, 1, n) \in Seq(S)
           /\ (r \o SubSeq(s, 1, n)) \o SubSeq(s, n + 1, Len(s)) = r \o s
<1> DEFINE front == SubSeq(s, 1, n)
           back == SubSeq(s, n + 1, Len(s))
<1>1. front \in Seq(S) /\ back \in Seq(S)
    BY CutInTwo, Zenon
<1>2. front \o back = s
    BY CutInTwo, Zenon
<1> HIDE DEF front, back
<1>3. r \o front \in Seq(S)
    BY <1>1, ConcatProperties, Zenon
<1>4. Piecewise(r, front, back)
    BY <1>1, AlwaysPiecewise, Zenon
<1>5. (r \o front) \o back = r \o s
    BY <1>2, <1>4, Zenon DEF Piecewise
<1> QED
    BY <1>3, <1>5, Zenon DEF front, back

\* A chunk of whatever length moves the first bytes of the queue behind those
\* that the target has: RandomizedTransfer loses, repeats and reorders nothing.
THEOREM ChunksKeepOrder ==
    ASSUME NEW S, q \in Seq(S), target \in Seq(S), NEW limit, Chunk(limit)
    PROVE  /\ q' \in Seq(S) /\ target' \in Seq(S)
           /\ target' \o q' = target \o q
<1>1. PICK n \in 1..Block :
          /\ n <= Len(q)
          /\ target' = target \o SubSeq(q, 1, n)
          /\ q' = SubSeq(q, n + 1, Len(q))
    BY DEF Chunk, From
<1>2. n \in 1..Len(q)
    BY <1>1
<1>3. target' \in Seq(S) /\ target' \o q' = target \o q
    BY <1>1, <1>2, MoveFront
<1>4. q' \in Seq(S)
    BY <1>1, <1>2, CutInTwo
<1> QED
    BY <1>3, <1>4
=============================================================================
