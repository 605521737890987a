------------------------------- MODULE Freshness -------------------------------
(* Comparing the live credentials of a CLI with those its active profile       *)
(* stores (src/src/core/freshness.ts and its adapters), what a switch does     *)
(* with the report (src/src/app.tsx, src/src/cli.tsx), and the account that a  *)
(* capture writes down (src/src/core/profile-identity.ts).  The files are read  *)
(* one after the other while the CLI goes on writing them.                      *)
EXTENDS Naturals, Sequences, FiniteSets, SequencesExt

CONSTANTS
  SavedValues, LiveValues,  \* how many values each field of a stored and of a live file can have
  MaxLiveWrites             \* bound: files the CLI writes while they are compared

ASSUME FreshnessAssumption == {SavedValues, LiveValues, MaxLiveWrites} \subseteq Nat

-----------------------------------------------------------------------------
(* The files of a CLI.  A file holds some fields, each absent (0) or with a      *)
(* value; a keychain entry wraps the file in another one.                       *)

Tool == {"codex", "gemini", "claude", "opencode", "goose", "goosekeyring", "crush", "plugin", "env"}

\* The files of each CLI, and what each of them may hold.  Of the names that Goose stores, "key" is
\* one that the comparison and the identity both take for a provider's, "suffix" one that only the
\* comparison does (/_API_KEY$/), "host" one of those that only the identity does (OPENAI_HOST).
FilesOf ==
  [c \in Tool |->
     CASE c = "codex" -> <<"auth">> [] c = "gemini" -> <<"oauth", "accounts">>
       [] c = "claude" -> <<"credentials">> [] c = "opencode" -> <<"providers">>
       [] c = "goose" -> <<"secrets", "config">> [] c = "goosekeyring" -> <<"keyring", "cache">>
       [] c = "crush" -> <<"crush">> [] c = "plugin" -> <<"plugin">> [] OTHER -> <<"secret">>]
FieldsOf ==
  [f \in UNION {Range(FilesOf[c]) : c \in Tool} |->
     CASE f = "auth" -> {"account", "token", "key", "mode"} [] f = "oauth" -> {"token", "rest"}
       [] f = "accounts" -> {"account", "rest"}
       [] f = "credentials" -> {"user", "login", "tier", "token", "expiry", "rest"}
       [] f = "providers" -> {"kind", "account", "token", "key", "second", "rest"}
       [] f = "secrets" -> {"key", "suffix", "host"} [] f = "config" -> {"route", "model", "host"}
       [] f = "keyring" -> {"user", "key", "rest"} [] f = "plugin" -> {"token", "key", "rest"}
       [] OTHER -> {"token"}]
CredFile == DOMAIN FieldsOf
Field == UNION {FieldsOf[f] : f \in CredFile}

FormsOf(file) == IF file \in {"credentials", "keyring"} THEN {"plain", "wrapped"} ELSE {"plain"}
Doc(form, fields) == [form |-> form, f |-> [x \in Field |-> IF x \in DOMAIN fields THEN fields[x] ELSE 0]]
NoDoc == Doc("none", <<>>)
Damaged == {Doc("broken", <<>>), Doc("inner", [x \in {"user"} |-> 1])}   \* as a whole, or what is wrapped

\* A login writes its token with its account; a provider of OpenCode is a login (1) or a key (2);
\* of two names of secrets.yaml it only counts whether they are there.
Sensible(file, d) ==
  /\ file = "auth" /\ d.f["token"] # 0 => d.f["account"] # 0
  /\ file = "providers" => /\ d.f["kind"] # 1 => d.f["token"] = 0 /\ d.f["account"] = 0
                           /\ d.f["kind"] # 2 => d.f["key"] = 0
  /\ file = "credentials" => /\ d.f["login"] # 2
                             /\ d.f["login"] = 0 => d.f["tier"] = 0 /\ d.f["token"] = 0
  /\ file = "secrets" => d.f["suffix"] <= 1 /\ d.f["host"] <= 1
  /\ d.form = "plain" => d.f["user"] = 0

\* The files with values up to this one.
Docs(file, most) ==
  {NoDoc} \union {d \in Damaged : d.form = "inner" => "wrapped" \in FormsOf(file)}
  \union {d \in {Doc(form, fields) : form \in FormsOf(file), fields \in [FieldsOf[file] -> 0..most]} :
            Sensible(file, d) /\ d.f["rest"] < most}
Sides(c, most) ==
  LET files == FilesOf[c]
  IN  IF Len(files) = 1 THEN {<<d>> : d \in Docs(files[1], most)} ELSE Docs(files[1], most) \X Docs(files[2], most)

IsParsed(d) == d.form \in {"plain", "wrapped"}
Both(s, l, x) == s.f[x] # 0 /\ l.f[x] # 0
One(s, l, x) == (s.f[x] # 0) # (l.f[x] # 0)
Same(s, l, fields) == \A x \in fields : s.f[x] = l.f[x]

-----------------------------------------------------------------------------
(* Verdicts.  The first rule that applies decides. *)

Verdict(kind, subtype, confidence) == [kind |-> kind, subtype |-> subtype, confidence |-> confidence]
FreshVerdict(confidence) == Verdict("fresh", "none", confidence)
Stale(confidence) == Verdict("stale", "none", confidence)
Rotated(subtype, confidence) == Verdict("rotated", subtype, confidence)
Unclear == Rotated("both", "low")

Rule(when, verdict) == [when |-> when, verdict |-> verdict]
FirstOf(rules) == rules[Min({n \in DOMAIN rules : rules[n].when})].verdict

CompareCodex(s, l) ==
  FirstOf(<<Rule(s = l, FreshVerdict("high")),
            Rule(~IsParsed(s) \/ ~IsParsed(l), Unclear),
            Rule(Both(s, l, "account") /\ s.f["account"] # l.f["account"], Stale("high")),
            Rule(Both(s, l, "account") /\ ~Same(s, l, {"token"}), Rotated("value-only", "high")),
            Rule(Both(s, l, "account"), Rotated("meta-only", "high")),
            Rule(Both(s, l, "key"), IF Same(s, l, {"key"}) THEN FreshVerdict("high") ELSE Stale("high")),
            Rule(TRUE, Unclear)>>)

CompareOauthCreds(s, l) ==
  FirstOf(<<Rule(s = l, FreshVerdict("high")),
            Rule(~IsParsed(s) \/ ~IsParsed(l), Unclear),
            Rule(~Same(s, l, {"token"}), Rotated("value-only", "high")),
            Rule(TRUE, Rotated("meta-only", "high"))>>)

CompareGoogleAccounts(s, l) ==
  FirstOf(<<Rule(s = l, FreshVerdict("high")),
            Rule(~IsParsed(s) \/ ~IsParsed(l), Unclear),
            Rule(~Both(s, l, "account"), Rotated("both", "medium")),
            Rule(~Same(s, l, {"account"}), Stale("high")),
            Rule(TRUE, Rotated("meta-only", "high"))>>)

\* The account of the keychain first, then the kind of subscription, then the tokens.
CompareClaude(s, l) ==
  FirstOf(<<Rule(s = l, FreshVerdict("high")),
            Rule(~IsParsed(s) \/ ~IsParsed(l), Unclear),
            Rule(s.form # l.form, Stale("low")),
            Rule(Both(s, l, "user") /\ ~Same(s, l, {"user"}), Stale("high")),
            Rule(One(s, l, "user"), Stale("low")),
            Rule(~Both(s, l, "login"), Unclear),
            Rule(Both(s, l, "tier") /\ ~Same(s, l, {"tier"}), Stale("medium")),
            Rule(One(s, l, "tier"), Stale("low")),
            Rule(s.f["token"] = 0 /\ l.f["token"] = 0, Unclear),
            Rule(~Same(s, l, {"token"}), Rotated("value-only", "high")),
            Rule(~Same(s, l, {"expiry"}), Rotated("meta-only", "high")),
            Rule(TRUE, Rotated("both", "medium"))>>)

CompareProvider(s, l) ==
  FirstOf(<<Rule(s.f["kind"] # l.f["kind"] \/ s.f["kind"] = 0, Rotated("both", "medium")),
            Rule(s.f["kind"] = 2, IF Same(s, l, {"key"}) THEN FreshVerdict("high") ELSE Stale("high")),
            Rule(Both(s, l, "account") /\ ~Same(s, l, {"account"}), Stale("high")),
            Rule(~Same(s, l, {"token"}), Rotated("value-only", "high")),
            Rule(TRUE, Rotated("meta-only", "high"))>>)

\* pickWorse, from the best to the worst.
Severity == <<FreshVerdict("high"), Rotated("meta-only", "high"), Rotated("value-only", "high"),
              Rotated("both", "medium"), Stale("high")>>
Worst(verdicts) == Severity[Max({n \in DOMAIN Severity : Severity[n] \in verdicts})]

\* Every provider either side knows; a second one is a login that keeps its token.
CompareOpencode(s, l) ==
  LET second == IF s.f["second"] = l.f["second"] THEN Rotated("meta-only", "high") ELSE Stale("high")
  IN  FirstOf(<<Rule(s = l, FreshVerdict("high")),
                Rule(~IsParsed(s) \/ ~IsParsed(l), Unclear),
                Rule(s.f["second"] = 0 /\ l.f["second"] = 0, CompareProvider(s, l)),
                Rule(TRUE, Worst({CompareProvider(s, l), second}))>>)

\* The names that are set count, and for config.yaml which provider; a file that cannot be read
\* has none.
CompareGooseYaml(s, l, names) ==
  LET Set(d) == {x \in names : d.f[x] # 0}
      lowered == IF IsParsed(s) /\ IsParsed(l) THEN "medium" ELSE "low"
  IN  FirstOf(<<Rule(s = l, FreshVerdict("high")),
                Rule(Set(s) = {} /\ Set(l) = {}, Unclear),
                Rule(Set(s) # Set(l) \/ ~Same(s, l, names \cap {"route"}), Stale(lowered)),
                Rule(~Same(s, l, names), Rotated("value-only", lowered)),
                Rule(TRUE, Rotated("meta-only", lowered))>>)

Unwrapped(d) == IF d.form = "inner" THEN Doc("broken", <<>>)
                ELSE [d EXCEPT !.form = "plain", !.f["user"] = 0]
CompareGooseKeyring(s, l) ==
  FirstOf(<<Rule(s = l, FreshVerdict("high")),
            Rule({s.form, l.form} \cap {"plain", "broken"} # {}, Unclear),
            Rule(Both(s, l, "user") /\ ~Same(s, l, {"user"}), Stale("high")),
            Rule(One(s, l, "user"), Stale("low")),
            Rule(TRUE, CompareGooseYaml(Unwrapped(s), Unwrapped(l), {"key"}))>>)

\* Files whose contents nothing is known of: Crush, and the provider caches of Goose.
CompareOpaque(s, l) == IF s = l THEN FreshVerdict("high") ELSE Unclear

\* fallbackCompare, for a CLI without an adapter: it knows the usual names of tokens and accounts.
FallbackCompare(s, l) ==
  FirstOf(<<Rule(s = l, FreshVerdict("high")),
            Rule(~IsParsed(s) \/ ~IsParsed(l), Unclear),
            Rule(s.f["token"] = 0 /\ l.f["token"] = 0, Unclear),
            Rule(Same(s, l, {"token"}), FreshVerdict("medium")),
            Rule(TRUE, Rotated("value-only", "low"))>>)

\* compareOne: a side that is missing needs no adapter.
CompareOne(file, s, l) ==
  IF s = NoDoc \/ l = NoDoc THEN IF s = l THEN FreshVerdict("high") ELSE Stale("high")
  ELSE CASE file = "auth" -> CompareCodex(s, l)
         [] file = "oauth" -> CompareOauthCreds(s, l)
         [] file = "accounts" -> CompareGoogleAccounts(s, l)
         [] file = "credentials" -> CompareClaude(s, l)
         [] file = "providers" -> CompareOpencode(s, l)
         [] file = "secrets" -> CompareGooseYaml(s, l, {"key", "suffix"})
         [] file = "config" -> CompareGooseYaml(s, l, {"route", "model"})
         [] file = "keyring" -> CompareGooseKeyring(s, l)
         [] file = "plugin" -> FallbackCompare(s, l)
         [] OTHER -> CompareOpaque(s, l)

\* Mutant: every file for itself.
NotAggregated(verdicts) == verdicts

\* aggregateInflight: one file of the same account and one of another are a change under way.
AggregateInflight(verdicts) ==
  LET kinds == {v.kind : v \in Range(verdicts)}
  IN  [i \in DOMAIN verdicts |->
         IF {"rotated", "stale"} \subseteq kinds /\ verdicts[i].kind \in {"rotated", "stale"}
         THEN Verdict("inflight", "none", "medium") ELSE verdicts[i]]

NeedsUserAttention(verdicts) == \E v \in Range(verdicts) : v.kind # "fresh"
HasInflight(verdicts) == \E v \in Range(verdicts) : v.kind = "inflight"
HasUnsafe(verdicts) ==
  \E v \in Range(verdicts) :
    v.kind \in {"stale", "inflight", "unsupported"} \/ (v.kind = "rotated" /\ v.confidence = "low")

\* What the screens do next (inspectAndRouteFreshness).
Route(verdicts) ==
  IF ~NeedsUserAttention(verdicts) THEN "goes on"
  ELSE IF HasInflight(verdicts) THEN "try again" ELSE "asks"

-----------------------------------------------------------------------------
(* The account that a capture writes down: signals of which a fingerprint or a   *)
(* name from a list is kept.                                                      *)

Signal(kind, about, value) == [kind |-> kind, about |-> about, value |-> value]
If(d, x, signals) == IF d.f[x] # 0 THEN signals ELSE {}

\* The fingerprint of the names that PROVIDER_KEY_RE matches.
Providers(d) == 2 * d.f["host"] + (IF d.f["key"] # 0 THEN 1 ELSE 0)
ProviderSignal(d) == IF Providers(d) = 0 THEN {} ELSE {Signal("provider", "file", Providers(d))}

Signals(file, d) ==
  IF ~IsParsed(d) THEN {}
  ELSE CASE file = "auth" -> If(d, "account", {Signal("account", "file", d.f["account"])})
                             \union If(d, "mode", {Signal("auth-mode", "file", d.f["mode"])})
                             \union If(d, "key", {Signal("api-key-mode", "file", 0)})
         [] file = "accounts" -> If(d, "account", {Signal("email", "file", d.f["account"])})
         [] file = "credentials" -> If(d, "user", {Signal("account", "file", d.f["user"])})
                                    \union If(d, "tier", {Signal("subscription-tier", "file", d.f["tier"])})
         [] file = "providers" ->
              {Signal("provider", "first", 0)} \union If(d, "second", {Signal("provider", "second", 0)})
              \union If(d, "account", {Signal("account", "first", d.f["account"])})
              \union If(d, "second", {Signal("account", "second", d.f["second"])})
              \union (IF d.f["kind"] = 2 THEN {Signal("api-key-mode", "first", 0)} ELSE {})
         [] file = "secrets" -> ProviderSignal(d)
         [] file = "config" -> ProviderSignal(d)
                               \union If(d, "route", {Signal("routing", "file", d.f["route"])})
         [] file = "cache" -> {Signal("provider", "cache", 0)}
         [] OTHER -> {}

\* collectWarnings, completenessFor: carried is what was kept because the CLI has it no more.
BuildProfileIdentity(files, docs, carried) ==
  LET signals == [i \in DOMAIN files |-> Signals(files[i], docs[i])]
      have == {i \in DOMAIN files : docs[i] # NoDoc}
  IN  [signals |-> signals,
       complete |-> CASE have = DOMAIN files /\ carried = {} -> "complete"
                      [] have = {} -> "unknown" [] OTHER -> "partial",
       carried |-> carried]

-----------------------------------------------------------------------------
VARIABLES
  tool,       \* the CLI
  saved,      \* what its active profile stores, file by file
  current,    \* what is live
  identity,   \* what meta.json says of the profile
  inspection, \* the comparison: the step, the pairs read so far, the report
  liveWrites  \* bound

freshVars == <<tool, saved, current, identity, inspection, liveWrites>>

OwnFiles == FilesOf[tool]
NoInspection == [step |-> "idle", read |-> <<>>, verdicts |-> <<>>]

FreshTypeOK ==
  /\ DOMAIN saved = DOMAIN OwnFiles /\ DOMAIN current = DOMAIN OwnFiles
  /\ \A i \in DOMAIN OwnFiles : saved[i].form \in {"none", "plain", "wrapped", "broken", "inner"}
  /\ inspection.step \in {"idle", "stored", "live", "done"}
  /\ \A v \in Range(inspection.verdicts) :
       v.kind \in {"fresh", "rotated", "stale", "inflight", "unsupported"}
       /\ (v.subtype # "none") = (v.kind = "rotated")
  /\ liveWrites \in 0..MaxLiveWrites

FreshInit ==
  /\ \E c \in Tool : tool = c /\ saved \in Sides(c, SavedValues) /\ current \in Sides(c, LiveValues)
  /\ identity = BuildProfileIdentity(OwnFiles, saved, {})
  /\ inspection = NoInspection /\ liveWrites = 0

\* inspectLiveFreshness, one file after the other; secrets of the environment are never compared.
BeginInspection ==
  /\ inspection.step = "idle"
  /\ inspection' = IF tool = "env"
                   THEN [NoInspection EXCEPT !.step = "done", !.verdicts = <<Verdict("unsupported", "none", "high")>>]
                   ELSE [NoInspection EXCEPT !.step = "stored"]
  /\ UNCHANGED <<tool, saved, current, identity, liveWrites>>

ReadStored ==
  /\ inspection.step = "stored"
  /\ inspection' = [inspection EXCEPT !.step = "live",
                      !.read = Append(@, [stored |-> saved[Len(@) + 1], live |-> NoDoc])]
  /\ UNCHANGED <<tool, saved, current, identity, liveWrites>>

ReadLive ==
  /\ inspection.step = "live"
  /\ LET n == Len(inspection.read)
         verdicts == Append(inspection.verdicts, CompareOne(OwnFiles[n], inspection.read[n].stored, current[n]))
         last == n = Len(OwnFiles)
     IN  inspection' = [step |-> IF last THEN "done" ELSE "stored",
                        read |-> [inspection.read EXCEPT ![n].live = current[n]],
                        verdicts |-> IF last THEN AggregateInflight(verdicts) ELSE verdicts]
  /\ UNCHANGED <<tool, saved, current, identity, liveWrites>>

\* What is stored afterwards, with what the CLI has no more carried forward.
IdentityOfKept(kept, carried) == BuildProfileIdentity(OwnFiles, kept, carried)

\* The user captures after the report; what is not live stays in the profile.
CaptureAfterReport ==
  /\ inspection.step = "done" /\ Route(inspection.verdicts) = "asks"
  /\ LET gone == {i \in DOMAIN OwnFiles : current[i] = NoDoc}
         kept == [i \in DOMAIN OwnFiles |-> IF i \in gone THEN saved[i] ELSE current[i]]
     IN  /\ saved' = kept
         /\ identity' = IdentityOfKept(kept, {OwnFiles[i] : i \in {j \in gone : saved[j] # NoDoc}})
  /\ inspection' = NoInspection /\ UNCHANGED <<tool, current, liveWrites>>

\* The CLI refreshes a token, logs in to another account, or logs out, one file at a time.
WriteLive ==
  /\ inspection.step \in {"stored", "live"} /\ tool # "env"
  /\ liveWrites < MaxLiveWrites /\ liveWrites' = liveWrites + 1
  /\ \E i \in DOMAIN OwnFiles :
       LET d == current[i]
       IN  current' \in {[current EXCEPT ![i] = NoDoc]}
             \union (IF IsParsed(d) /\ {"token", "account"} \cap FieldsOf[OwnFiles[i]] # {}
                     THEN {[current EXCEPT ![i].f =
                                [x \in Field |-> IF x \in on /\ d.f[x] # 0 THEN LiveValues ELSE d.f[x]]] :
                             on \in {{"token"}, {"token", "account", "tier"}}}
                     ELSE {})
  /\ UNCHANGED <<tool, saved, identity, inspection>>

FreshNext == BeginInspection \/ ReadStored \/ ReadLive \/ CaptureAfterReport \/ WriteLive

FreshSpec == FreshInit /\ [][FreshNext]_freshVars

-----------------------------------------------------------------------------
\* What both sides record differs: two accounts, subscriptions or providers of one kind.  The mode of
\* Codex names no account.  The fingerprint of the providers of Goose counts other names than the
\* comparison, and two that differ only in those are reported as a rotation (goose.ts:261).
AccountDiffers(i) ==
  LET s == inspection.read[i].stored
      l == inspection.read[i].live
  IN  \E a \in Signals(OwnFiles[i], s), b \in Signals(OwnFiles[i], l) :
        /\ a.kind = b.kind /\ a.about = b.about /\ a.value # b.value
        /\ a.kind # "auth-mode" /\ (a.kind = "provider" => One(s, l, "key"))

\* A report is honest about what was read.  When it lets a switch go on without asking, nothing that
\* both sides record differs, but for the mode of Codex and what the fallback does not know; nor is
\* anything missing.  When the account that a capture would write down is another one, no file that differs is called
\* a rotation of the same login, the screens do not go on, and `mat freshness' does not end well
\* (names of providers that the comparison of Goose does not know are the exception);
\* and a report that ends well has no file that is missing on one side or cannot be read.  What a
\* change under way hides, the files that were not read again, is the exception.
ReportHonest ==
  inspection.step = "done" /\ tool # "env" =>
    LET read == inspection.read
        verdicts == inspection.verdicts
        guessed == tool = "plugin" /\ read[1].stored.f["token"] # 0
        Known == Field \ (IF guessed THEN {"key", "mode", "rest"} ELSE {"mode", "rest"})
        lonely(i) == (read[i].stored = NoDoc) # (read[i].live = NoDoc)
        unread(i) == {read[i].stored.form, read[i].live.form} \cap {"broken", "inner"} # {}
    IN  /\ Route(verdicts) = "goes on" =>
             \A i \in DOMAIN read :
               ~lonely(i) /\ \A x \in Known : Both(read[i].stored, read[i].live, x) =>
                               Same(read[i].stored, read[i].live, {x})
        /\ (\E i \in DOMAIN read : AccountDiffers(i)) =>
             /\ HasUnsafe(verdicts) /\ Route(verdicts) # "goes on"
             /\ \A i \in DOMAIN read : verdicts[i].kind # "rotated"
        /\ ~HasUnsafe(verdicts) =>
             \A i \in DOMAIN read : ~lonely(i) /\ (unread(i) => read[i].stored = read[i].live)

\* What meta.json says of a profile is true of what it stores: its signals are those of the stored
\* files, also of those a capture did not find any more, and it is complete only if none is missing
\* or older than the others.
IdentityTrue ==
  /\ \A i \in DOMAIN OwnFiles : identity.signals[i] = Signals(OwnFiles[i], saved[i])
  /\ identity.complete = "complete" => NoDoc \notin Range(saved)
  /\ identity.complete = "complete" => identity.carried = {}
=============================================================================
