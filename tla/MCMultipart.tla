----------------------------- MODULE MCMultipart -----------------------------
(* Small instances of Multipart for TLC.                                   *)
EXTENDS Multipart

CONSTANTS a, b, f

P(name, filename, size) == [name |-> name, filename |-> filename, size |-> size]

Text(name)       == P(name, None, 1)
File(name, size) == P(name, f, size)

(* Every body of up to three parts, and bodies at the default limits.      *)
Parts == {Text(a), Text(None), File(a, 1), File(b, 3), File(None, 2)}

ShortBodies == UNION {[1 .. n -> Parts] : n \in 0 .. 3}

LongBodies == {[i \in 1 .. 10 |-> File(a, 1)], [i \in 1 .. 11 |-> File(a, 1)],
               [i \in 1 .. 2 |-> File(b, 50)], [i \in 1 .. 3 |-> File(b, 50)],
               <<File(a, 51)>>}

AllBodies == ShortBodies \cup LongBodies

SmallLimits ==
    {[Unlimited EXCEPT !.fields = 2], [Unlimited EXCEPT !.files = 1],
     [Unlimited EXCEPT !.field = 2], [Unlimited EXCEPT !.total = 4],
     [Unlimited EXCEPT !.allowed = {a}, !.fields = 1],
     [Unlimited EXCEPT !.files = 0]}
=============================================================================
