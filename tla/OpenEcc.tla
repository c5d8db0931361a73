------------------------------- MODULE OpenEcc -------------------------------
(***************************************************************************)
(* open_ecc.cpp (the same file in learneth and learnopenssl): objects that *)
(* hold an EC key and sign, verify and agree on secrets with it, and two   *)
(* kinds of program that use them: TestOpenEcc of learnopenssl/main.cpp,   *)
(* and one that makes any calls in any order once it has initialised its   *)
(* objects.  OpenSSL is external.                                          *)
(*                                                                         *)
(* A private number is a natural number and stands for its public point,   *)
(* too: the pair k has the halves k and k.  Numbers are generated in order *)
(* from 1 on; TestOpenEcc also imports a number and uses a point that      *)
(* nobody has generated.                                                   *)
(* A signature is the number that made it with the message; an ECDH secret *)
(* is the unordered pair of the numbers that meet in it.  It fills only    *)
(* the first bytes of an ecdh_key (21 of 32 with the curve that is used);  *)
(* behind it is whatever was on the stack.  Messages differ within the     *)
(* bytes that ECDSA uses of them.                                          *)
(***************************************************************************)
EXTENDS Integers, Sequences

CONSTANTS
    Objects,    \* the OpenEcc objects
    Messages,
    Tails,      \* what may be on the stack behind a secret
    MaxKeys     \* bound: key pairs generated

ASSUME EccAssumption ==
    /\ Objects # {}
    /\ MaxKeys \in Nat
    /\ Tails # {}
    /\ "message" \in Messages /\ "message_error" \in Messages

VARIABLES
    priv_key_,  \* per object the halves [priv, pub] of its EC_KEY, NoKey or Unset
    made,       \* OpenSSL: the number of key pairs generated
    signature, pub_key, priv_key,   \* the program's strings, NoString at first
    shared,     \* per object: its last ecdh_key, and history about it
    verdict,    \* what verifyMessage returned last
    imported,   \* history, per object: its private half was imported
    crashed,
    step        \* TestOpenEcc's next call; 0 in the other program

strings == <<signature, pub_key, priv_key>>
vars == <<priv_key_, made, strings, shared, verdict, imported, crashed, step>>

Numbers == 0..MaxKeys + 1
ForeignNumber == 0              \* from_key
ForeignPoint == MaxKeys + 1     \* the point at the end of TestOpenEcc

\* A key without a group: OpenSSL does not have the 26th curve.
NoKey == [priv |-> -1, pub |-> -1]
Unset == [priv |-> -2, pub |-> -2]
NoString == -1

\* What ECDSA_sign leaves in `signature' when it fails.
Garbage == [by |-> -1, of |-> "garbage"]

\* Nothing computed yet, or stack all through.
NoSecret == [secret |-> {}, tail |-> {}, mine |-> -1, theirs |-> -1, imported |-> FALSE]

HasKey(o) == priv_key_[o] \notin {NoKey, Unset}

Init ==
    /\ priv_key_ = [o \in Objects |-> Unset]
    /\ made = 0
    /\ signature = Garbage /\ pub_key = NoString /\ priv_key = NoString
    /\ shared = [o \in Objects |-> NoSecret]
    /\ verdict = FALSE
    /\ imported = [o \in Objects |-> FALSE]
    /\ crashed = FALSE
    /\ step \in {0, 1}

-----------------------------------------------------------------------------
(***************************************************************************)
(* The operations.  All return NOERROR whatever OpenSSL says.              *)
(***************************************************************************)

\* Whether OpenSSL has the curve does not change: all objects get a pair, or
\* all get a key without a group.
initEccCurves(o) ==
    /\ \/ /\ made < MaxKeys /\ \A p \in Objects : priv_key_[p] # NoKey
          /\ priv_key_' = [priv_key_ EXCEPT ![o] = [priv |-> made + 1, pub |-> made + 1]]
          /\ made' = made + 1
       \/ /\ made = 0
          /\ priv_key_' = [priv_key_ EXCEPT ![o] = NoKey]
          /\ UNCHANGED made
    /\ imported' = [imported EXCEPT ![o] = FALSE]
    /\ UNCHANGED <<strings, shared, verdict, crashed>>

\* Mutant: the public half of the old key is kept.
MutantKeepPub(o, k) ==
    /\ HasKey(o) /\ made < MaxKeys
    /\ made' = made + 1
    /\ priv_key_' = [priv_key_ EXCEPT ![o].priv = k]
    /\ imported' = [imported EXCEPT ![o] = TRUE]
    /\ UNCHANGED <<strings, shared, verdict, crashed>>

\* importPrivKey, strToPrivKey: a new key with a pair of its own, of which the
\* imported number then replaces the private half only.  A key without a group
\* refuses the number.  (In older versions of OpenSSL it stores it, and all that
\* can be done with it then is to dump it again.)
importPrivKey(o, k) ==
    /\ \/ /\ HasKey(o) /\ made < MaxKeys
          /\ made' = made + 1
          /\ priv_key_' = [priv_key_ EXCEPT ![o] = [priv |-> k, pub |-> made + 1]]
          /\ imported' = [imported EXCEPT ![o] = TRUE]
       \/ ~HasKey(o) /\ UNCHANGED <<priv_key_, made, imported>>
    /\ UNCHANGED <<strings, shared, verdict, crashed>>

\* dumpPrivKey, privKeyToStr
dumpPrivKey(o) ==
    /\ \/ HasKey(o) /\ priv_key' = priv_key_[o].priv /\ UNCHANGED crashed
       \/ ~HasKey(o) /\ crashed' = TRUE /\ UNCHANGED priv_key
    /\ UNCHANGED <<priv_key_, made, signature, pub_key, shared, verdict, imported>>

\* When ECDSA_sign fails sig_len is not initialised.
signMessage(o, m) ==
    /\ \/ /\ HasKey(o)
          /\ signature' = [by |-> priv_key_[o].priv, of |-> m]
          /\ UNCHANGED crashed
       \/ /\ ~HasKey(o)
          /\ signature' = Garbage
          /\ crashed' \in BOOLEAN
    /\ UNCHANGED <<priv_key_, made, pub_key, priv_key, shared, verdict, imported>>

\* Mutant: only the signer is compared.
MutantAnyMessage(o, m, parameter) ==
    /\ verdict' = (HasKey(o) /\ signature.by = priv_key_[o].pub)
    /\ UNCHANGED <<priv_key_, made, strings, shared, imported, crashed>>

\* The public half that counts is the object's own; the parameter is ignored.
verifyMessage(o, m, parameter) ==
    /\ verdict' = (HasKey(o) /\ signature = [by |-> priv_key_[o].pub, of |-> m])
    /\ UNCHANGED <<priv_key_, made, strings, shared, imported, crashed>>

getPubKey(o) ==
    /\ \/ HasKey(o) /\ pub_key' = priv_key_[o].pub /\ UNCHANGED crashed
       \/ ~HasKey(o) /\ crashed' = TRUE /\ UNCHANGED pub_key
    /\ UNCHANGED <<priv_key_, made, signature, priv_key, shared, verdict, imported>>

\* Mutant: the secret is made with the object's public half.
MutantPublicSecret(o, point) ==
    /\ HasKey(o)
    /\ \E tail \in Tails :
          shared' = [shared EXCEPT ![o] =
            [secret |-> {priv_key_[o].pub, point}, tail |-> tail, mine |-> priv_key_[o].pub,
             theirs |-> point, imported |-> imported[o]]]
    /\ UNCHANGED <<priv_key_, made, strings, verdict, imported, crashed>>

\* calcECDHKey, strToPubKey: ECDH_compute_key writes the secret to the front of
\* share_key, which is not initialised, and all 32 bytes are returned.  Without
\* a group it fails or crashes.
calcECDHKey(o, point) ==
    /\ \/ /\ HasKey(o)
          /\ \E tail \in Tails :
                shared' = [shared EXCEPT ![o] =
                  [secret |-> {priv_key_[o].priv, point}, tail |-> tail,
                   mine |-> priv_key_[o].pub, theirs |-> point, imported |-> imported[o]]]
          /\ UNCHANGED crashed
       \/ /\ ~HasKey(o)
          /\ shared' = [shared EXCEPT ![o] = NoSecret]
          /\ crashed' \in BOOLEAN
    /\ UNCHANGED <<priv_key_, made, strings, verdict, imported>>

-----------------------------------------------------------------------------
(***************************************************************************)
(* The programs.                                                           *)
(***************************************************************************)

\* The calls TestOpenEcc makes of its one object.
Script == <<"init", "dump", "sign", "sign", "getPub", "verify", "verifyError",
            "import", "sign", "verify", "sign", "verify", "getPub", "dump", "ecdh">>

TestCall(o, call) ==
    \/ call = "init" /\ initEccCurves(o)
    \/ call = "dump" /\ dumpPrivKey(o)
    \/ call = "sign" /\ signMessage(o, "message")
    \/ call = "getPub" /\ getPubKey(o)
    \/ call = "verify" /\ verifyMessage(o, "message", pub_key)
    \/ call = "verifyError" /\ verifyMessage(o, "message_error", pub_key)
    \/ call = "import" /\ importPrivKey(o, ForeignNumber)
    \/ call = "ecdh" /\ calcECDHKey(o, ForeignPoint)

open_ecc == CHOOSE o \in Objects : TRUE

TestOpenEcc ==
    /\ step \in 1..Len(Script) /\ ~crashed
    /\ TestCall(open_ecc, Script[step])
    /\ step' = step + 1

\* Any other program passes on strings that it has got from its objects, or a
\* private number from elsewhere.
AnyCall(o) ==
    \/ dumpPrivKey(o) \/ getPubKey(o)
    \/ \E m \in Messages : signMessage(o, m) \/ verifyMessage(o, m, pub_key)
    \/ \E k \in {ForeignNumber, priv_key} \ {NoString} : importPrivKey(o, k)
    \/ pub_key # NoString /\ calcECDHKey(o, pub_key)

OtherProgram ==
    /\ step = 0 /\ ~crashed
    /\ \E o \in Objects :
          initEccCurves(o) \/ (priv_key_[o] # Unset /\ AnyCall(o))
    /\ UNCHANGED step

Next == TestOpenEcc \/ OtherProgram

Spec == Init /\ [][Next]_vars
-----------------------------------------------------------------------------
\* Types of all variables.
TypeOK ==
    /\ priv_key_ \in [Objects -> [priv : Numbers, pub : Numbers] \cup {NoKey, Unset}]
    /\ made \in Numbers
    /\ signature \in [by : Numbers, of : Messages] \cup {Garbage}
    /\ pub_key \in Numbers \cup {NoString}
    /\ priv_key \in Numbers \cup {NoString}
    /\ shared \in [Objects -> [secret : SUBSET Numbers, tail : Tails, mine : Numbers,
                               theirs : Numbers, imported : BOOLEAN] \cup {NoSecret}]
    /\ verdict \in BOOLEAN
    /\ imported \in [Objects -> BOOLEAN]
    /\ crashed \in BOOLEAN
    /\ step \in 0..Len(Script) + 1

\* An object accepts the signature of the key it has now exactly when that
\* key was generated and not imported: after an import it signs with one pair
\* and verifies with another.  Nothing else may part the two halves.
OwnSignature ==
    \A o \in Objects : HasKey(o) =>
        (priv_key_[o].priv = priv_key_[o].pub <=> ~imported[o])

\* Two objects that have computed with each other's public key.
Exchanged(a, b) ==
    /\ shared[a] # NoSecret /\ shared[b] # NoSecret
    /\ shared[a].theirs = shared[b].mine /\ shared[b].theirs = shared[a].mine

\* The string that the object's last call of calcECDHKey returned.
ecdh_key(o) == <<shared[o].secret, shared[o].tail>>

\* Both have the same secret, unless one of them had imported its private half:
\* then never.  The strings they return are the same only if what was left on the
\* stack behind the secrets happens to be the same, too.
Agreement ==
    \A a, b \in Objects :
        a # b /\ Exchanged(a, b) =>
            LET generated == ~shared[a].imported /\ ~shared[b].imported
            IN /\ shared[a].secret = shared[b].secret <=> generated
               /\ ecdh_key(a) = ecdh_key(b) <=>
                      generated /\ shared[a].tail = shared[b].tail

\* What verifyMessage tells TestOpenEcc where OpenSSL has the curve: its own
\* signature is good, a wrong message is not, and after the import its own
\* signatures are not good any more.
TestVerdicts ==
    HasKey(open_ecc) =>
        /\ step = 7 => verdict
        /\ step \in {8, 11, 13} => ~verdict
=============================================================================
