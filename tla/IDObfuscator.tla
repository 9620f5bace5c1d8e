---------------------------- MODULE IDObfuscator ----------------------------
(***************************************************************************)
(* internal/service/idobfuscator.go: the tokens that stand for the ids of  *)
(* punishments.  The alphabet is the digits 0 .. Base - 1, anything else   *)
(* is no digit; HMAC-SHA256 may give any key; an int64 is a number in      *)
(* -Half .. Half - 1 whose arithmetic wraps, and Go's % takes the sign of  *)
(* its left operand.                                                       *)
(***************************************************************************)
EXTENDS Integers, Sequences

CONSTANTS
    Types,          \* punishment types, each with its own tag
    IdModulus,      \* a prime, 2^31 - 1
    Base,           \* 62
    Half,           \* 2^63
    Ids,            \* ids of punishments
    MadeUp,         \* tokens clients send that no response held
    None            \* no record, no token, no type

ASSUME ObfuscatorAssumption ==
    /\ IdModulus \in Nat /\ IdModulus > 1
    /\ \A d \in 2 .. IdModulus - 1 : IdModulus % d # 0
    /\ Base \in Nat /\ Base > 1 /\ Base <= IdModulus
    /\ Half \in Nat /\ IdModulus * IdModulus <= Half
    /\ Ids \subseteq Nat
    /\ None \notin Types

(* A token is a tag and a string of runes, each a digit or not. *)
IsToken(token) ==
    /\ token = [tag |-> token.tag, digits |-> token.digits]
    /\ token.digits \in Seq(Nat)

ASSUME MadeUpAssumption == \A token \in MadeUp : IsToken(token)

VARIABLES
    key,        \* keyPair of each type
    of,         \* the record whose token the client holds, if one was shown
    held,       \* the token it holds
    asked,      \* the type it asks for with it
    reply       \* the id Decode returns

vars == <<key, of, held, asked, reply>>

Refused == None     \* any error of Decode

-----------------------------------------------------------------------------
Wrap(n) == ((n + Half) % (2 * Half)) - Half

GoMod(a, m) == IF a >= 0 THEN a % m ELSE -((-a) % m)

(* mulMod: no overflow for a, b < IdModulus. *)
MulMod(a, b, m) == GoMod(GoMod(a, m) * GoMod(b, m), m)

(* keyPair: mult prime to the modulus. *)
Keys == [mult : 1 .. IdModulus - 1, add : 0 .. IdModulus - 1]

(* extendedGCD(a, b) as ExtendedGCD[b][a]: gcd and Bezout coefficients. *)
ExtendedGCD[b \in Nat] ==
    [a \in Nat |->
        IF b = 0 THEN [g |-> a, x |-> 1, y |-> 0]
        ELSE LET r == ExtendedGCD[a % b][b]
             IN  [g |-> r.g, x |-> r.y, y |-> r.x - (a \div b) * r.y]]

(* modInverse; it panics unless a and m are coprime, which Keys rules out. *)
ModInverse(a, m) ==
    LET x == GoMod(ExtendedGCD[m][a].x, m) IN IF x < 0 THEN x + m ELSE x

(* base62Encode. *)
Base62[n \in Nat] ==
    IF n < Base THEN <<n>> ELSE Append(Base62[n \div Base], n % Base)

(* base62Decode, for valid digits: n after each of them, and after all. *)
Scanned(digits) ==
    LET n[i \in 0 .. Len(digits)] ==
            IF i = 0 THEN 0 ELSE Wrap(n[i - 1] * Base + digits[i])
    IN  n

Base62Value(digits) == Scanned(digits)[Len(digits)]

(* Mutant of Scramble: the sum is not reduced. *)
ScrambleUnreduced(k, id) == MulMod(id, k.mult, IdModulus) + k.add

(* The arithmetic of Encode. *)
Scramble(k, id) == GoMod(MulMod(id, k.mult, IdModulus) + k.add, IdModulus)

(* Mutant of Unscramble: Go's % is taken for the mathematical one. *)
UnscrambleSigned(k, x) ==
    MulMod(GoMod(Wrap(x - k.add), IdModulus), ModInverse(k.mult, IdModulus), IdModulus)

(* The arithmetic of Decode. *)
Unscramble(k, x) ==
    LET d    == GoMod(Wrap(x - k.add), IdModulus)
        diff == IF d < 0 THEN d + IdModulus ELSE d
    IN  MulMod(diff, ModInverse(k.mult, IdModulus), IdModulus)

Encode(k, t, id) == [tag |-> t, digits |-> Base62[Scramble(k[t], id)]]

ValidDigits(token) == \A i \in DOMAIN token.digits : token.digits[i] \in 0 .. Base - 1

(* Mutant of Decode: any known tag will do. *)
DecodeAnyTag(k, t, token) ==
    IF token.digits = << >> \/ token.tag \notin Types \/ ~ ValidDigits(token)
    THEN Refused
    ELSE Unscramble(k[t], Base62Value(token.digits))

Decode(k, t, token) ==
    IF token.digits = << >> \/ token.tag # t \/ ~ ValidDigits(token)
    THEN Refused
    ELSE Unscramble(k[t], Base62Value(token.digits))

-----------------------------------------------------------------------------
Init ==
    /\ key \in [Types -> Keys]
    /\ of = None /\ held = None /\ asked = None
    /\ reply = Refused

(* toDomain puts the token into an item of a response. *)
Show(t, id) ==
    /\ of' = [type |-> t, id |-> id]
    /\ held' = Encode(key, t, id)
    /\ asked' = None
    /\ reply' = Refused
    /\ UNCHANGED key

MakeUp(token) ==
    /\ of' = None
    /\ held' = token
    /\ asked' = None
    /\ reply' = Refused
    /\ UNCHANGED key

(* GetByID: resolveID. *)
Ask(t) ==
    /\ held # None
    /\ asked' = t
    /\ reply' = Decode(key, t, held)
    /\ UNCHANGED <<key, of, held>>

Next ==
    \/ \E t \in Types, id \in Ids : Show(t, id)
    \/ \E token \in MadeUp : MakeUp(token)
    \/ \E t \in Types : Ask(t)

Spec == Init /\ [][Next]_vars

-----------------------------------------------------------------------------
(* idobfuscator.go:12, "a true bijection over [0, idModulus-1]", and         *)
(* openapi.yaml:757, "the token is bound to its type": the token of a record *)
(* finds that record, and under another type nothing, whatever the secret.   *)
RoundTrip ==
    of # None /\ asked # None /\ of.id < IdModulus =>
        reply = (IF asked = of.type THEN of.id ELSE Refused)

(* Behind it: the token held is the record's, the reply is to it. *)
Consistent ==
    /\ key \in [Types -> Keys]
    /\ held # None => IsToken(held)
    /\ of # None => of.type \in Types /\ of.id \in Nat /\ held = Encode(key, of.type, of.id)
    /\ asked = None => reply = Refused
    /\ asked # None => asked \in Types /\ held # None /\ reply = Decode(key, asked, held)

(* Whatever a client sends, also digits beyond the modulus or beyond int64,  *)
(* the repository is asked for an id that can be one.                        *)
OnlyPossibleIds == reply \in 0 .. IdModulus - 1 \cup {Refused}

(* What Encode may print: no leading zero, a value below the modulus. *)
Canonical(token) ==
    /\ Len(token.digits) > 1 => token.digits[1] # 0
    /\ Len(token.digits) <= Len(Base62[IdModulus - 1])
    /\ Base62Value(token.digits) \in 0 .. IdModulus - 1

(* The other half of the bijection: a canonical token that is accepted is    *)
(* the token of the record it finds, so no second one of its kind names it.  *)
OneTokenPerRecord ==
    asked # None /\ reply # Refused /\ Canonical(held) => Encode(key, asked, reply) = held
=============================================================================
