---------------------------- MODULE MCDecodeGraph ----------------------------
\* The settings that runs check: each optional feature with the defaults around
\* it, loop bounds that follow the lengths, and one graph per membership.
EXTENDS DecodeGraph

With(on) == [f \in DOMAIN CHOOSE c \in Config : TRUE |-> f \in on]

Plain == With({"shape", "stable", "fails"})
Chained == With({"shape", "stable", "feedback", "fails", "reuse"})
Strict == With({"shape", "stable", "feedback", "fails", "strict", "reuse"})
Native == With({"shape", "stable", "feedback", "native", "fails"})
Unrolled == With({"shape", "stable", "feedback", "unrolled", "reuse"})
Shared == With({"shape", "stable", "feedback", "shared", "native", "fails"})
Following == With({"shape", "feedback", "fails", "reuse"})
PerMembership == With({"fails"})

Supported == {Plain, Chained, Strict, Native, Unrolled, Shared, Following, PerMembership}

ThreeOne == <<3, 1>>
=============================================================================
