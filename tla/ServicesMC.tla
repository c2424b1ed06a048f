----------------------------- MODULE ServicesMC ------------------------------
(* Services on a small instance of each part.                                *)
EXTENDS Services

\* launches: two letters numbered by two uids, one recent, one with an attachment, a
\* third without a Message-ID, and what the numbering by another key left of them.
Two(old, acct) == [k \in {"old", "acct"} \X {1, 2} |-> IF k[1] = "old" THEN old[k[2]] ELSE acct[k[2]]]
Cached == {[header |-> Two(h, a), body |-> Two(h2, b)] :
               h \in {<<"a", "none">>, <<"a", "ghost">>}, a \in {<<"none", "b">>, <<"a", "b">>},
               h2 \in {<<"a", "none">>, <<"none", "none">>}, b \in {<<"none", "a">>, <<"b", "b">>}}
            \cup {[header |-> Two(<<"b", "none">>, a), body |-> Two(<<"b", "none">>, b)] :
               a \in {<<"none", "b">>, <<"a", "b">>}, b \in {<<"none", "a">>, <<"b", "b">>}}
            \cup {[header |-> Two(<<"none", "b">>, <<"a", "none">>),
                   body |-> Two(<<"none", "a">>, <<"a", "none">>)]}
\* Their ids, known or not; and a body under another header that shows no id, or has given
\* its own to the row.
Own(h)   == [k \in DOMAIN h |-> IF h[k] = "ghost" THEN "none" ELSE h[k]]
Misfiled == {[header |-> Two(<<"none", "none">>, <<"a", "b">>), body |-> Two(<<"none", "none">>, <<"none", b>>),
              msgid |-> Two(<<"none", "none">>, m)] :
               b \in {"a", "c"}, m \in {<<"a", "b">>, <<"none", "none">>, <<"a", "a">>}}
Upgraded == {[header |-> c.header, body |-> c.body, msgid |-> Own(c.header)] : c \in Cached} \cup Misfiled
            \cup {[header |-> Two(<<"none", "b">>, <<"a", "none">>), body |-> Two(<<"none", "a">>, <<"none", "none">>),
                   msgid |-> Two(<<"none", "none">>, <<"none", "none">>)]}
ByUid == <<"a", "b">>
\* rounds: three accounts, two folders.
InTurn == <<"a", "b", "c">>
Walked == <<"inbox", "f">>

=============================================================================
