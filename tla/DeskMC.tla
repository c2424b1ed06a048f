------------------------------- MODULE DeskMC --------------------------------
(* Desk on a small instance of each part.                                    *)
EXTENDS Desk

\* list: two messages of the same date, a hit among them.
SameDate == [u \in Uids |-> IF u = 3 THEN 1 ELSE u]
\* spam: two letters of one sender with different text.
OneSender == [l \in Letters |-> "x"]
TwoTexts == [l \in Letters |-> IF l = 1 THEN "t1" ELSE "t2"]
\* folders: one below the other.
Nested == {<<"x">>, <<"x", "c">>}
TopOnly == {<<>>}
\* score: all facts at once, none, and a list's; a relay that vouches, one that
\* does not; and a filter that agrees.
Listed == {"list-id", "list-unsubscribe", "via", "no-received"}
Everything == {"user-cleared", "in-junk", "always-score", "known", "own", "familiar",
               "tld-elsewhere", "reply-to-known", "junk-text", "list-id", "list-unsubscribe",
               "via", "display-name", "names-other-address", "name-confusable", "claims-brand",
               "brand-own-domain", "freemail", "role-name", "name-invisible",
               "domain-confusable", "domain-ip", "reply-elsewhere", "reply-freemail",
               "no-msgid", "msgid-no-domain", "msgid-local-host", "no-received",
               "one-unnamed-hop", "no-date", "skewed", "php-script", "php-eval", "php-cms",
               "old-phpmailer", "bidi", "subject-mixed", "capitals", "subject-invisible",
               "legacy-charset", "cyrillic", "no-recipient", "not-to-you", "locked-archive",
               "double-extension", "executable", "page-file", "macros", "html", "only-image",
               "password-box", "wallet", "extortion", "empty-text", "sender-brand-host",
               "text-names-other", "url-userinfo", "url-ip", "url-punycode", "shortener",
               "brand-in-subdomain", "php-tokens", "wordpress-code"}
Extremes == {{}, Everything, Everything \ Listed}
SomeVerdicts == {{}, {<<"spf", "fail">>, <<"dkim", "fail">>, <<"arc", "pass">>},
                 {<<"spf", "softfail">>, <<"arc", "pass">>, <<"auth", "pass">>},
                 {<<"dkim", "pass">>}, {<<"compauth", "fail">>}}
SomeHeads == {<<>>, <<[kind |-> "flag", above |-> FALSE, says |-> "spam", score |-> 0, required |-> 0],
                      [kind |-> "status", above |-> TRUE, says |-> "spam", score |-> 1200, required |-> 500]>>}
SomeTunings == {<<>>, [r \in {"url-credential-trick", "zero-width-obfuscation"} |-> 0]}
\* bodies: two that share a payload, one too big.
Shared == [u \in Uids |-> IF u = 3 THEN "none" ELSE "h"]
\* search: what is cached, what is indexed, and more of it on the server.
CachedHits == [f \in {"a", "b"} |-> IF f = "a" THEN {1, 2} ELSE {1}]
IndexedHits == [q \in {"q", "r"} |-> [f \in {"a", "b"} |-> IF q = "q" THEN {1} ELSE {}]]
ServerHits == [q \in {"q", "r"} |-> [f \in {"a", "b"} |-> IF q = "q" THEN {1, 2, 3} ELSE {2}]]
\* columns: four rows that each order ranks differently.
FourRows == [f \in {"a", "b"} |-> IF f = "a" THEN 1 .. 4 ELSE 1 .. 2]
Ranks == [newest |-> <<4, 3, 2, 1>>, oldest |-> <<1, 2, 3, 4>>, from |-> <<2, 4, 1, 3>>, subject |-> <<3, 1, 4, 2>>]
\* accounts: edits of a server, of the preferences, and of an account without one.
Edits == {[server |-> "s", local |-> "unsaid", prefs |-> 1], [server |-> "t", local |-> "no", prefs |-> 0],
          [server |-> "none", local |-> "unsaid", prefs |-> 0]}
\* reading: 1 is signed and cached as other octets than arrived, 2 is encrypted.
Kinds == [m \in {1, 2} |-> IF m = 1 THEN "signed" ELSE "encrypted"]

=============================================================================
