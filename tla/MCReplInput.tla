------------------------------ MODULE MCReplInput ------------------------------
EXTENDS InputReference

Characters == {"x", "+", "(", ")", "]", Quote, Backslash, "/", "*"}
MCCharacter == Characters \union {"=", ">", " ", "&", "|", "{", "[", "}", Newline}
MCLine == {Append(s, Newline) : s \in SeqOf(Characters, 2)}
            \union {<<"=", ">", " ", Newline>>, <<"x", "&", "&", Newline>>,
                    <<"&", Newline>>, <<"|", "|", Newline>>, <<"{", "[", Newline>>, <<"]", "}", Newline>>,
                    <<"/", "*", "/", "+", "*", "/", Newline>>}

=============================================================================
