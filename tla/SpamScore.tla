------------------------------ MODULE SpamScore ------------------------------
(* The local spam score (spamheuristics.cpp): what our own server said      *)
(* about the sender, what the user said, and some fifty rules about the     *)
(* head and the body, added up against a threshold.                         *)
(*                                                                          *)
(* A message is the set of facts the rules test, one name for each test the *)
(* code makes on strings ("claims-brand": brandClaimedBy finds one in the   *)
(* display name), with the verdicts of the trusted Authentication-Results   *)
(* header and the headers of the server's own filter.  Facts the mailbox    *)
(* knows (Context) and facts of the message are kept in one set.  The       *)
(* behaviour lets up to MaxChanges facts change, so that near-empty and     *)
(* near-complete sets are both scored.                                      *)
EXTENDS Integers, Sequences, FiniteSets, FiniteSetsExt, TLC

CONSTANTS Verdicts,      \* the sets of <<method, result>> a header may carry
          Trust,         \* the sets of methods spam/trust* lets through
          Heads,         \* the sequences of filter headers, topmost first
          Starts,        \* sets of facts the behaviours start from
          Tunings,       \* partial functions rule -> weight of [spamrules]
          Threshold, LinkGroupCap, MaxChanges

SpamScoreAssumption == Threshold >= 1 /\ MaxChanges \in Nat

UnsureThreshold == 25

(***************************************************************************)
(* The Authentication-Results header.                                      *)
(***************************************************************************)
Accusers(v, t) == {x \in v : x[1] \notin {"arc", "auth"} /\ x[1] \in t}
ResultsFailed(v, t) ==
  \E x \in Accusers(v, t) :
     \/ x[1] = "compauth" /\ x[2] = "fail"
     \/ x[1] # "compauth" /\ x[2] \in {"fail", "hardfail", "permerror"}
ResultsSoftFailed(v, t) == \E x \in Accusers(v, t) : x[2] = "softfail"
ResultsPassed(v, t) == \E x \in Accusers(v, t) : x[2] = "pass"
ArcPassed(v, t) == "arc" \in t /\ <<"arc", "pass">> \in v
Submitted(v, t) == "auth" \in t /\ <<"auth", "pass">> \in v

(* The message as the rules see it. *)
Letter(f, v, t, h, crypto) ==
  [has |-> f, failed |-> ResultsFailed(v, t), soft |-> ResultsSoftFailed(v, t),
   passed |-> ResultsPassed(v, t), arc |-> ArcPassed(v, t),
   submitted |-> Submitted(v, t), head |-> h, crypto |-> crypto]

(* A failure taken at the word of the header. *)
AuthFailedRaw(m) == m.failed
(* A failure reported beside arc=pass is what a mailing list does. *)
AuthFailed(m) == m.failed /\ ~m.arc

Relayed(m) == m.has \cap {"list-id", "list-unsubscribe", "list-post", "via"} # {}
ListMail(m) == m.has \cap {"list-id", "list-unsubscribe"} # {}

When(b, rule) == IF b THEN {rule} ELSE {}
Has(m, x) == x \in m.has
(* The first of a chain of tests that holds decides the rule, if any. *)
FirstOf(chain) == LET on == SelectSeq(chain, LAMBDA x : x[1])
                  IN IF on = <<>> \/ on[1][2] = "" THEN {} ELSE {on[1][2]}

(***************************************************************************)
(* The sections of score(), in their order.                                *)
(***************************************************************************)
(* The user's answer and the folder judged one after the other. *)
UserRulesBoth(m) == When(Has(m, "user-cleared"), "user-not-spam")
                    \cup When(Has(m, "in-junk"), "junk-folder")
UserRules(m) == FirstOf(<<<<Has(m, "user-cleared"), "user-not-spam">>,
                          <<Has(m, "in-junk"), "junk-folder">>>>)

(* Rule 0, for a correspondent and for the user's own submission. *)
Exempt(m) ==
  /\ ~AuthFailed(m) /\ ~Has(m, "always-score") /\ ~Has(m, "in-junk")
  /\ \/ Has(m, "known") /\ m.passed
     \/ Has(m, "own") /\ m.submitted

(* The accusations of a sender authentication did not vouch for. *)
AuthRules(m) ==
  FirstOf(<<<<Has(m, "own") /\ AuthFailed(m), "own-address-forged">>,
            <<Has(m, "own") /\ ~m.passed /\ ~m.arc /\ ~m.submitted,
              "own-address-unverified">>,
            <<Has(m, "known") /\ AuthFailed(m), "known-contact-spoofed">>,
            <<AuthFailed(m), "auth-fail">>,
            <<m.soft /\ ~m.arc, "auth-softfail">>>>)
  \cup When(Has(m, "known") /\ ~AuthFailed(m) /\ ~Has(m, "own") /\ ~Has(m, "in-junk"),
            "known-contact")

(* Mail had from the domain before, in number and over time. *)
FamiliarRules(m) ==
  LET familiar == Has(m, "familiar")
  IN FirstOf(<<<<m.passed /\ ~AuthFailed(m) /\ familiar, "auth-pass-familiar">>,
               <<m.passed /\ ~AuthFailed(m), "auth-pass">>,
               <<familiar /\ ~AuthFailed(m), "familiar-domain">>,
               <<familiar, "familiar-domain-spoofed">>>>)
     \cup When(~familiar /\ Has(m, "tld-elsewhere"), "unfamiliar-tld")
     \cup When(Has(m, "reply-to-known"), "thread-reply")

(* The verdict of the server's own filter: per kind the topmost header that *)
(* stands above the last Received.                                          *)
Upstream(h) ==
  LET ours    == SelectSeq(h, LAMBDA x : x.above)
      flags   == SelectSeq(ours, LAMBDA x : x.kind # "spamd" /\ x.says # "nothing")
      numbers == SelectSeq(ours, LAMBDA x : x.kind # "flag" /\ x.required > 0)
  IN [scored |-> numbers # <<>>,
      score |-> IF numbers = <<>> THEN 0 ELSE numbers[1].score,
      required |-> IF numbers = <<>> THEN 0 ELSE numbers[1].required,
      spam |-> flags # <<>> /\ flags[1].says = "spam"]
UpstreamRules(m) ==
  LET up == Upstream(m.head)
  IN FirstOf(<<<<~up.scored, IF up.spam THEN "upstream-spam" ELSE "">>,
               <<up.score >= 2 * up.required, "upstream-spam-high">>,
               <<up.score >= up.required, "upstream-spam">>,
               <<up.score * 5 >= up.required * 3, "upstream-near-threshold">>,
               <<up.score <= 0, "upstream-ham">>>>)

CryptoRules(m) == CASE m.crypto \in {2, 3} -> {"pgp-signed"}
                    [] m.crypto = 1 -> {"pgp-encrypted"}
                    [] OTHER -> {}

(* The display name and what it claims; all but the last need one. *)
NameRules(m) ==
  LET named == Has(m, "display-name")
  IN When(named /\ Has(m, "names-other-address"), "display-name-address")
     \cup When(named /\ Has(m, "name-confusable"), "display-name-confusable")
     \cup When(/\ named /\ ~Has(m, "familiar") /\ ~Relayed(m)
               /\ Has(m, "claims-brand") /\ ~Has(m, "brand-own-domain"),
               "brand-impersonation")
     \cup When(/\ named /\ Has(m, "freemail") /\ ~Relayed(m)
               /\ m.has \cap {"role-name", "claims-brand"} # {},
               "freemail-brand-name")
     \cup When(Has(m, "name-invisible"), "zero-width-in-name")
DomainRules(m) == When(Has(m, "domain-confusable"), "from-domain-confusable")
                  \cup When(Has(m, "domain-ip"), "from-ip-literal")
ReplyToRules(m) ==
  IF m.passed \/ ~Has(m, "reply-elsewhere") THEN {}
  ELSE {"reply-to-mismatch"}
       \cup When(Has(m, "reply-freemail") /\ ~Has(m, "freemail"), "freemail-reply-to")
TransportRules(m) ==
  FirstOf(<<<<Has(m, "no-msgid"), "no-message-id">>,
            <<Has(m, "msgid-no-domain"), "msgid-malformed">>,
            <<Has(m, "msgid-local-host"), "msgid-local">>>>)
  \cup FirstOf(<<<<Has(m, "no-received"), "no-received">>,
                 <<Has(m, "one-unnamed-hop"), "single-hop-unknown">>>>)
  \cup FirstOf(<<<<Has(m, "no-date"), "no-date">>,
                 <<~Has(m, "no-received") /\ Has(m, "skewed"), "date-skew">>>>)
SoftwareRules(m) ==
  FirstOf(<<<<~Has(m, "php-script"), "">>, <<Has(m, "php-eval"), "php-eval-source">>,
            <<Has(m, "php-cms"), "php-cms-origin">>, <<TRUE, "php-script-origin">>>>)
  \cup When(Has(m, "old-phpmailer"), "vulnerable-mailer")
SubjectRules(m) ==
  When(Has(m, "bidi"), "subject-bidi-override")
  \cup When(Has(m, "subject-mixed"), "subject-confusable")
  \cup When(Has(m, "capitals"), "subject-shouting")
  \cup When(Has(m, "subject-invisible"), "zero-width-in-subject")
  \cup When(Has(m, "legacy-charset"), "charset-mismatch")
  \cup When(Has(m, "cyrillic"), "cyrillic-script")
AddressedRules(m) ==
  IF Has(m, "list-id") THEN {}
  ELSE FirstOf(<<<<Has(m, "no-recipient"), "undisclosed-recipients">>,
                 <<Has(m, "not-to-you"), "not-addressed-to-you">>>>)
AttachmentRules(m) ==
  When(Has(m, "locked-archive"), "encrypted-archive")
  \cup FirstOf(<<<<Has(m, "double-extension"), "attachment-double-extension">>,
                 <<Has(m, "executable"), "attachment-executable">>>>)
  \cup When(Has(m, "page-file"), "html-attachment")
  \cup When(Has(m, "macros"), "attachment-macro")
BodyRules(m) ==
  When(Has(m, "html") /\ Has(m, "only-image"), "image-only")
  \cup When(Has(m, "html") /\ Has(m, "password-box"), "html-password-form")
(* A wallet address with or without the pitch around it; two bodies.      *)
PitchRules(m) ==
  FirstOf(<<<<Has(m, "wallet") /\ Has(m, "extortion"), "crypto-extortion">>,
            <<Has(m, "wallet"), "crypto-wallet">>>>)
  \cup When(Has(m, "html") /\ Has(m, "empty-text"), "text-html-divergence")

(* Link rules.  A brand does not impersonate itself, unless authentication *)
(* failed; a link to an address literal is tested no further.              *)
OwnLinks(m) == ~AuthFailed(m) /\ Has(m, "sender-brand-host")
LinkRules(m) ==
  IF ~Has(m, "html") THEN {}
  ELSE When(Has(m, "text-names-other") /\ ~ListMail(m) /\ ~OwnLinks(m),
            "link-text-mismatch")
       \cup When(Has(m, "url-userinfo"), "url-credential-trick")
       \cup When(Has(m, "url-ip"), "url-ip-host")
       \cup When(Has(m, "url-punycode"), "url-punycode-brand")
       \cup When(Has(m, "shortener") /\ ~ListMail(m), "url-shortener")
       \cup When(Has(m, "brand-in-subdomain") /\ ~ListMail(m) /\ ~OwnLinks(m),
                 "url-brand-subdomain")
       \cup When(Has(m, "php-tokens") /\ ~ListMail(m), "hacked-php-url")
       \cup When(Has(m, "wordpress-code"), "hacked-wordpress-link")

(***************************************************************************)
(* Weights, and the sum.                                                   *)
(***************************************************************************)
Rules(w, names) == [r \in names |-> w]
Weight ==
  Rules(-999, {"user-not-spam"}) @@ Rules(999, {"junk-folder"})
  @@ Rules(100, {"own-address-forged", "own-address-unverified"})
  @@ Rules(60, {"known-contact-spoofed"}) @@ Rules(35, {"auth-fail"})
  @@ Rules(50, {"junk-content-match", "upstream-spam-high", "cyrillic-script",
                "encrypted-archive", "attachment-double-extension", "crypto-extortion"})
  @@ Rules(45, {"attachment-executable"})
  @@ Rules(40, {"upstream-spam", "php-eval-source", "html-password-form"})
  @@ Rules(30, {"upstream-near-threshold", "display-name-address",
                "display-name-confusable", "brand-impersonation",
                "from-domain-confusable", "subject-bidi-override", "html-attachment",
                "url-credential-trick"})
  @@ Rules(25, {"familiar-domain-spoofed", "freemail-brand-name",
                "zero-width-in-name", "zero-width-in-subject", "from-ip-literal",
                "php-cms-origin", "subject-confusable", "link-text-mismatch",
                "url-punycode-brand", "url-brand-subdomain"})
  @@ Rules(20, {"auth-softfail", "freemail-reply-to", "no-received", "url-ip-host"})
  @@ Rules(18, {"no-message-id"})
  @@ Rules(15, {"unfamiliar-tld", "msgid-malformed", "msgid-local", "no-date",
                "date-skew", "attachment-macro", "hacked-php-url",
                "hacked-wordpress-link", "crypto-wallet"})
  @@ Rules(12, {"single-hop-unknown", "vulnerable-mailer", "image-only"})
  @@ Rules(10, {"php-script-origin", "text-html-divergence"})
  @@ Rules(8, {"reply-to-mismatch", "charset-mismatch", "not-addressed-to-you",
               "url-shortener"})
  @@ Rules(6, {"subject-shouting", "undisclosed-recipients"})
  @@ Rules(-8, {"auth-pass"})
  @@ Rules(-15, {"known-contact", "familiar-domain", "upstream-ham"})
  @@ Rules(-25, {"auth-pass-familiar"}) @@ Rules(-30, {"thread-reply"})
  @@ Rules(-40, {"pgp-encrypted"}) @@ Rules(-50, {"pgp-signed"})

(* The key of [spamrules] a hit answers to. *)
KeyOf(r) == IF r \in {"zero-width-in-name", "zero-width-in-subject"}
            THEN "zero-width-obfuscation" ELSE r
WeightOf(tuned, r) == IF KeyOf(r) \in DOMAIN tuned THEN tuned[KeyOf(r)] ELSE Weight[r]

(* The two strongest link hits, within the cap of the group. *)
LinkTotal(tuned, fired) ==
  LET heard == {r \in fired : WeightOf(tuned, r) # 0}
      best(S) == CHOOSE r \in S : \A x \in S : WeightOf(tuned, x) <= WeightOf(tuned, r)
      taken(room, S) == IF room <= 0 \/ S = {} THEN 0
                        ELSE Min({WeightOf(tuned, best(S)), room})
      first == taken(LinkGroupCap, heard)
      second == IF heard = {} \/ LinkGroupCap <= 0 THEN 0
                ELSE taken(LinkGroupCap - first, heard \ {best(heard)})
  IN first + second

Fired(m) ==
  UserRules(m) \cup When(Has(m, "junk-text"), "junk-content-match") \cup AuthRules(m)
  \cup FamiliarRules(m) \cup UpstreamRules(m) \cup CryptoRules(m) \cup NameRules(m)
  \cup DomainRules(m) \cup ReplyToRules(m) \cup TransportRules(m) \cup SoftwareRules(m)
  \cup SubjectRules(m) \cup AddressedRules(m) \cup AttachmentRules(m) \cup BodyRules(m)
  \cup PitchRules(m)

(* out.total: an exempt message stops at what was said before Rule 0. *)
Total(tuned, m) ==
  LET sum(rules) == MapThenSumSet(LAMBDA r : WeightOf(tuned, r), rules)
  IN IF Exempt(m) THEN sum(UserRules(m))
     ELSE sum(Fired(m)) + LinkTotal(tuned, LinkRules(m))
Verdict(tuned, m) ==
  LET total == Total(tuned, m)
  IN IF Exempt(m) THEN "ham"
     ELSE CASE total >= Threshold -> "spam"
            [] total < Threshold /\ total >= UnsureThreshold -> "unsure"
            [] OTHER -> "ham"

(***************************************************************************)
(* Every message within MaxChanges facts of a start is scored.             *)
(***************************************************************************)
VARIABLES facts, said, trusted, head, signed, tuned, changes

AllFacts == UNION Starts

Init == /\ facts \in Starts /\ said \in Verdicts /\ trusted \in Trust
        /\ head \in Heads /\ signed \in {0, 2} /\ tuned \in Tunings /\ changes = 0
Next == \E x \in AllFacts :
          /\ changes < MaxChanges /\ changes' = changes + 1
          /\ facts' = IF x \in facts THEN facts \ {x} ELSE facts \cup {x}
          /\ UNCHANGED <<said, trusted, head, signed, tuned>>

Scored == Letter(facts, said, trusted, head, signed)

(* A failure our server reports beside arc=pass is a relay's doing: it      *)
(* changes neither the total nor the verdict, by any of the rules that      *)
(* judge the sender, the domain's history or the links (authFailed in       *)
(* score()).                                                                *)
RelayIsNotForgery ==
  LET sparing == [Scored EXCEPT !.failed = FALSE, !.soft = FALSE]
  IN Scored.arc => /\ Total(tuned, Scored) = Total(tuned, sparing)
                   /\ Verdict(tuned, Scored) = Verdict(tuned, sparing)

(* A message the user called not spam is never marked again, whatever else  *)
(* fires and even in the junk folder ("Nothing it can find gets anywhere    *)
(* near the threshold from -999"), unless the rule itself was re-weighted.  *)
TheUsersWordStands ==
  "user-cleared" \in facts /\ "user-not-spam" \notin DOMAIN tuned
    => Verdict(tuned, Scored) # "spam"

=============================================================================
