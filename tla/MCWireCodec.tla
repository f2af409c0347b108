------------------------------ MODULE MCWireCodec ------------------------------
EXTENDS WireCodec

Leaves == {Scalar("null", <<>>), Scalar("int", <<9>>), Scalar("bool", <<1>>),
           Scalar("string", <<7>>), Scalar("bytes", <<255, 6>>)}
Pick == {Scalar("null", <<>>), Scalar("bool", <<0>>)}
Flat == {Collection("array", s) : s \in SeqOf(Pick, 2)}
            \union {Collection("map", s) : s \in {<<>>} \union (Pick \X Pick)}
Nested == {Collection("array", <<v>>) : v \in Flat}
            \union {Collection("map", <<v, w>>) : v \in Pick, w \in Flat}
Some == Leaves \union Flat \union Nested
Lists == {<<>>} \union {<<v>> : v \in Some}
            \union {<<v, w>> : v \in Pick, w \in Some}
            \union {<<v, w, v>> : v \in Pick, w \in Pick}
MCValue == Pick \union Some

MCSent == {[form |-> "state", locals |-> s, result |-> <<>>] : s \in Lists}
            \union {[form |-> "response", locals |-> s, result |-> r] :
                       s \in Lists, r \in {<<>>} \union {<<v>> : v \in Leaves \union Flat}}

Short == {f \in MCSent : f.form = "state" /\ Len(f.locals) <= 1}
Alphabet == 0..8 \union {255}
Changed(s) == {[s EXCEPT ![i] = c] : i \in 2..Len(s), c \in Alphabet}
MCInput == {<<>>, <<0>>} \union {Encode(f) : f \in MCSent}
            \union {Append(Encode(f), 0) : f \in Short}
            \union UNION {Changed(Encode(f)) : f \in Short}
            \union {<<m>> \o s : m \in {256, 257}, s \in SeqOf(Alphabet, 3)}
            \union {<<m, n>> \o s : m \in {256, 257}, n \in 0..2, s \in SeqOf(Alphabet, 3)}

=============================================================================
