---------------------------- MODULE CachePolicy ----------------------------
(***************************************************************************)
(* Which responses the cache keeps, for how long and for whom: the rules   *)
(* of the configuration, the identity of a request, storability, lifetime  *)
(* and validation (src/src/cache.rs), over the life of one resource whose  *)
(* origin changes its mind, across restarts with other configurations and  *)
(* steps of the wall clock.  Requests are taken one after the other here;  *)
(* DiskCache has their interleavings.                                      *)
(***************************************************************************)
EXTENDS Integers, SequencesExt

CONSTANTS
    Host, Path,   \* the resource, as normalized_url splits it
    Versions,     \* the responses its origin can give
    Answer,       \* Answer[v]: status and headers of response v
    Tags, NoTag,  \* entity tags
    Requests,     \* requests for the resource, see Request
    Values,       \* values of a request header a response may vary on
    Blank,        \* the empty one of them
    Configs,      \* cache sections of the configuration
    NoEntry,
    MaxReal, MaxDrift   \* bounds on the time that passes, and on clock steps

Never == -1   \* no Expires, or one that is not a date
NoArg == -1   \* a directive without an argument that is a number
NoDate == 0   \* no Last-Modified

Directive == [name: STRING, arg: Nat \cup {NoArg}]

\* Every header line is a sequence of directives, Vary a set of field names.
Headers == [status: Nat, cc: Seq(Seq(Directive)), expires: Nat \cup {Never},
            vary: SUBSET STRING, cookie: BOOLEAN, etag: Tags \cup {NoTag},
            lm: Nat]

\* `private` stands for credentials or a range, `force` for no-cache, inm and
\* ims are validators of the client's own.
Request == [accept: Seq(Values), private: BOOLEAN, force: BOOLEAN,
            inm: Tags \cup {NoTag}, ims: Nat]

ASSUME PolicyAssumption ==
    /\ Answer \in [Versions -> Headers]
    /\ Requests \subseteq Request
    /\ NoTag \notin Tags /\ Blank \in Values
    /\ MaxReal \in Nat /\ MaxDrift \in Nat

\* Validators tell the versions of the resource apart, on whatever servers its
\* redirects have led to.
ASSUME ValidatorAssumption ==
    \A v, w \in Versions :
       /\ Answer[v].etag = Answer[w].etag /\ Answer[v].etag # NoTag => v = w
       /\ Answer[v].lm = Answer[w].lm /\ Answer[v].lm # NoDate => v = w

VARIABLES
    config,  \* the cache section the process was started with
    entry,   \* entry[k]: what the cache has for the request variant k
    origin,  \* the response its origin, or where that redirects, has now
    real,    \* seconds that have passed
    drift,   \* by how much the wall clock has fallen behind them
    word     \* history: word[k] is the origin's last word on entry[k]

vars == <<config, entry, origin, real, drift, word>>

Clock == real - drift

-----------------------------------------------------------------------------
(* Configuration *)

\* CachePattern::is_match: a wildcard's host part never reaches into the path.
IsMatch(p) ==
    \/ p.kind = "exact" /\ p.host = Host /\ p.path = Path
    \/ p.kind = "wildcard" /\ Host \in p.host /\ Path \in p.path
    \/ p.kind = "regex" /\ <<Host, Path>> \in p.subjects

\* CompiledRule::new refuses empty patterns, unknown flags and bad regexes.
Compiles(p) == p.kind # "invalid"

\* The rules Cache::initialize keeps, by their place in the list.
Rules(c) == {i \in DOMAIN c.whitelist : Compiles(c.whitelist[i].match)}

\* Cache::initialize
DisabledReason(c) ==
    CASE ~ c.enabled         -> "DisabledByConfig"
      [] c.max_age = 0       -> "ZeroMaxAge"
      [] c.max_size = 0      -> "ZeroMaxSize"
      [] c.whitelist = <<>>  -> "EmptyWhitelist"
      [] c.unavailable       -> "CacheDirectoryUnavailable"
      [] Rules(c) = {}       -> "NoValidWhitelistRules"
      [] OTHER               -> "none"

Active(c) == c.enabled /\ DisabledReason(c) = "none"

Lesser(a, b) == IF a <= b THEN a ELSE b

\* The rule at place i of the whitelist of c was kept and matches the target.
Applies(c, i) ==
    Compiles(c.whitelist[i].match) /\ IsMatch(c.whitelist[i].match)

\* MUTANT of RuleAge: the first matching rule wins.
RuleAgeFirst(c) ==
    FoldLeft(LAMBDA age, r :
                IF age = NoArg /\ Compiles(r.match) /\ IsMatch(r.match)
                THEN r.max_age ELSE age,
             NoArg, c.whitelist)

\* The loop of Cache::plan over the rules that were kept.
RuleAge(c) ==
    FoldLeft(LAMBDA age, r : IF Compiles(r.match) /\ IsMatch(r.match)
                             THEN r.max_age ELSE age,
             NoArg, c.whitelist)

\* MUTANT of PlanTtl: the default age is no limit.
PlanTtlOfRule(c) == IF RuleAge(c) = NoArg THEN 0 ELSE RuleAge(c)

\* The lifetime Cache::plan gives, 0 when the target is not cached.
PlanTtl(c) == IF RuleAge(c) = NoArg THEN 0 ELSE Lesser(RuleAge(c), c.max_age)

\* Ages and sizes are unsigned, and the whitelist is a list.
ASSUME ConfigsAssumption ==
    \A c \in Configs :
       /\ c.max_age \in Nat /\ c.max_size \in Nat
       /\ Len(c.whitelist) \in Nat
       /\ DOMAIN c.whitelist = 1 .. Len(c.whitelist)
       /\ \A i \in DOMAIN c.whitelist : c.whitelist[i].max_age \in Nat

Plan(q) == Active(config) /\ ~ q.private /\ PlanTtl(config) > 0

\* MUTANT of CacheKey: the variants of a request share an entry.
CacheKeyShared(q) == Blank

\* cache_key hashes the first line of each header in SUPPORTED_VARY_HEADERS, for
\* which `accept` stands; of a header that is missing it hashes as little as of
\* an empty one.
CacheKey(q) == IF q.accept = <<>> THEN Blank ELSE q.accept[1]

Keys == Values

-----------------------------------------------------------------------------
(* Response headers *)

SupportedVary == {"accept", "accept-language", "accept-encoding", "origin",
                  "authorization"}

Bare(name) == [name |-> name, arg |-> NoArg]

\* Only the first Cache-Control line is looked at.
FirstLine(h) == IF h.cc = <<>> THEN <<>> ELSE h.cc[1]

Directives(line) == {line[i] : i \in DOMAIN line}

\* MUTANT of CacheableHeaders: private responses are stored.
CacheableIfPrivate(h) == Bare("no-store") \notin Directives(FirstLine(h))
                         /\ ~ h.cookie

\* cacheable_headers: directives are compared whole.
CacheableHeaders(h) ==
    /\ Bare("no-store") \notin Directives(FirstLine(h))
    /\ Bare("private") \notin Directives(FirstLine(h))
    /\ ~ h.cookie

IsAge(d) == d.name = "max-age" /\ d.arg # NoArg

\* The first max-age that is a number.
MaxAge(line) ==
    LET First(i) == IsAge(line[i]) /\ \A j \in 1 .. i - 1 : ~ IsAge(line[j])
    IN  IF \E i \in DOMAIN line : First(i)
        THEN line[CHOOSE i \in DOMAIN line : First(i)].arg ELSE NoArg

\* MUTANT of ExpiresTtl: Expires is ignored.
ExpiresIgnored(ttl, h) == ttl

\* A date in the past leaves no time.
ExpiresTtl(ttl, h) ==
    IF h.expires = Never THEN ttl
    ELSE Lesser(ttl, IF h.expires > Clock THEN h.expires - Clock ELSE 0)

EffectiveTtl(ttl, h) ==
    LET age == MaxAge(FirstLine(h))
    IN  ExpiresTtl(IF age = NoArg THEN ttl ELSE Lesser(ttl, age), h)

\* cache_control_requires_revalidation
RequiresRevalidation(h) == Bare("no-cache") \in Directives(FirstLine(h))

\* What begin_write accepts for storing.
Storable(h) ==
    /\ h.status \in 200 .. 299
    /\ CacheableHeaders(h)
    /\ h.vary \subseteq SupportedVary
    /\ EffectiveTtl(PlanTtl(config), h) # 0

-----------------------------------------------------------------------------
(* Entries *)

Entry == [ver: Versions, created: Nat, ttl: Nat, revalidate: BOOLEAN,
          etag: Tags \cup {NoTag}, lm: Nat]

ASSUME EntryAssumption == NoEntry \notin Entry

\* by: the accept lines of the request that stored the entry; said: what the
\* origin had at its last word; h: the headers of that word, be it a full answer
\* or a 304; conf: the configuration in force then; at, drift: when it came;
\* own: each confirmation was of the entry's own validators.
Word == [by: Seq(Values), said: Versions, h: Headers, conf: Configs, at: Nat,
         drift: Nat, own: BOOLEAN]

\* MUTANT of IsFresh: an entry of age ttl is fresh.
IsFreshLate(e) == ~ e.revalidate /\ (Clock > e.created => Clock - e.created <= e.ttl)

\* saturating_sub: an entry from the future is of age 0.
IsFresh(e) ==
    /\ ~ e.revalidate
    /\ (IF Clock > e.created THEN Clock - e.created ELSE 0) < e.ttl

\* The requests answered without the origin.
Hits(q) ==
    /\ Plan(q) /\ entry[CacheKey(q)] # NoEntry
    /\ ~ q.force /\ IsFresh(entry[CacheKey(q)])

\* MUTANT of Sent: the client's validators win.
SentByClient(q, e) ==
    [inm |-> IF q.inm # NoTag THEN q.inm ELSE e.etag,
     ims |-> IF q.ims # NoDate THEN q.ims ELSE e.lm]

\* add_validators inserts those the entry has over the client's own, which
\* forward_headers let through.
Sent(q, e) ==
    [inm |-> IF e.etag # NoTag THEN e.etag ELSE q.inm,
     ims |-> IF e.lm # NoDate THEN e.lm ELSE q.ims]

\* The condition that decides is one the entry provided.
OwnCondition(q, e) ==
    IF Sent(q, e).inm # NoTag THEN e.etag # NoTag ELSE e.lm # NoDate

-----------------------------------------------------------------------------
(* The origin *)

\* If-None-Match hides If-Modified-Since, which is compared as a date.
MayConfirm(sent) ==
    IF sent.inm # NoTag THEN sent.inm = Answer[origin].etag
    ELSE Answer[origin].lm # NoDate /\ Answer[origin].lm <= sent.ims

\* The headers of a 304: those of the full answer, or none of them.
NotModified ==
    {Answer[origin],
     [Answer[origin] EXCEPT !.cc = <<>>, !.expires = Never, !.etag = NoTag,
                            !.lm = NoDate]}

-----------------------------------------------------------------------------
(* Actions *)

Init ==
    /\ config \in Configs
    /\ entry = [k \in Keys |-> NoEntry]
    /\ origin \in Versions
    /\ real = 0 /\ drift = 0
    /\ word = [k \in Keys |-> NoEntry]

\* The variants that have an entry, and entries but some of those.
Held == {k \in Keys : entry[k] # NoEntry}

Without(gone, f) == [k \in Keys |-> IF k \in gone THEN NoEntry ELSE f[k]]

\* Cache::initialize cleans only a cache it enables: of dead entries, and of any
\* it finds incomplete or has no room for.
Restart(c) ==
    /\ config' = c
    /\ \E gone \in SUBSET Held :
          /\ IF Active(c) THEN \A k \in Held \ gone : IsFresh(entry[k])
                          ELSE gone = {}
          /\ entry' = Without(gone, entry)
          /\ word' = Without(gone, word)
    /\ UNCHANGED <<origin, real, drift>>

\* Other responses crowd an entry out, or a lookup finds its body missing.
Evict(k) ==
    /\ entry[k] # NoEntry
    /\ entry' = [entry EXCEPT ![k] = NoEntry]
    /\ word' = [word EXCEPT ![k] = NoEntry]
    /\ UNCHANGED <<config, origin, real, drift>>

\* begin_write, when the full answer can be stored; any other answer leaves
\* the cache as it is.
Stored(q) ==
    LET h == Answer[origin]
        k == CacheKey(q)
    IN  /\ Plan(q) /\ ~ Hits(q) /\ Storable(h)
        /\ entry' = [entry EXCEPT ![k] =
                        [ver |-> origin, created |-> Clock,
                         ttl |-> EffectiveTtl(PlanTtl(config), h),
                         revalidate |-> RequiresRevalidation(h),
                         etag |-> h.etag, lm |-> h.lm]]
        /\ word' = [word EXCEPT ![k] =
                        [by |-> q.accept, said |-> origin, h |-> h,
                         conf |-> config, at |-> real,
                         drift |-> drift, own |-> TRUE]]
        /\ UNCHANGED <<config, origin, real, drift>>

\* MUTANT of Refreshed: the lifetime is the configured one.
RefreshedFully(e, h) ==
    [e EXCEPT !.created = Clock, !.ttl = PlanTtl(config),
              !.etag = IF h.etag # NoTag THEN h.etag ELSE @,
              !.lm = IF h.lm # NoDate THEN h.lm ELSE @]

\* MUTANT of Refreshed: the 304 decides about revalidation as well.
RefreshedRevalidate(e, h) ==
    [e EXCEPT !.created = Clock,
              !.ttl = EffectiveTtl(PlanTtl(config), h),
              !.revalidate = RequiresRevalidation(h),
              !.etag = IF h.etag # NoTag THEN h.etag ELSE @,
              !.lm = IF h.lm # NoDate THEN h.lm ELSE @]

\* Cache::refresh: `revalidate` stays what the stored answer made it.
Refreshed(e, h) ==
    [e EXCEPT !.created = Clock,
              !.ttl = EffectiveTtl(PlanTtl(config), h),
              !.etag = IF h.etag # NoTag THEN h.etag ELSE @,
              !.lm = IF h.lm # NoDate THEN h.lm ELSE @]

Heard(w, h, own) ==
    [w EXCEPT !.said = origin, !.h = h, !.conf = config, !.at = real,
              !.drift = drift, !.own = @ /\ own]

\* A 304: the entry is refreshed and served.
Confirmed(q) ==
    LET k == CacheKey(q)
    IN  /\ Plan(q) /\ entry[k] # NoEntry /\ ~ Hits(q)
        /\ MayConfirm(Sent(q, entry[k]))
        /\ \E h \in NotModified :
              /\ entry' = [entry EXCEPT ![k] = Refreshed(@, h)]
              /\ word' = [word EXCEPT ![k] =
                             Heard(@, h, OwnCondition(q, entry[k]))]
        /\ UNCHANGED <<config, origin, real, drift>>

Publish(v) ==
    /\ v # origin /\ origin' = v
    /\ UNCHANGED <<config, entry, real, drift, word>>

Tick ==
    /\ real < MaxReal /\ real' = real + 1
    /\ UNCHANGED <<config, entry, origin, drift, word>>

\* Somebody sets the wall clock back, or right again.
StepClock(d) ==
    /\ d # drift /\ real - d >= 0 /\ drift' = d
    /\ UNCHANGED <<config, entry, origin, real, word>>

Next ==
    \/ \E c \in Configs : Restart(c)
    \/ \E k \in Keys : Evict(k)
    \/ \E q \in Requests : Stored(q)
    \/ \E q \in Requests : Confirmed(q)
    \/ \E v \in Versions : Publish(v)
    \/ Tick
    \/ \E d \in 0 .. MaxDrift : StepClock(d)

Spec == Init /\ [][Next]_vars

-----------------------------------------------------------------------------
(* Properties *)

TypeOK ==
    /\ config \in Configs
    /\ entry \in [Keys -> Entry \cup {NoEntry}]
    /\ word \in [Keys -> Word \cup {NoEntry}]
    /\ origin \in Versions
    /\ real \in Nat /\ drift \in Nat /\ Clock >= 0

\* The rule of c that decides, by its place: the last that applies.
Decides(c, i) ==
    /\ Applies(c, i)
    /\ \A j \in DOMAIN c.whitelist : j > i => ~ Applies(c, j)

\* What is served from the cache is younger than the configured age, than
\* max-age and than Expires, counted from the exchange that stored or last
\* renewed it and by the headers of that exchange, of which the code reads the
\* first Cache-Control line and the first max-age in it that is a number.
\* Restarts do not prolong that, and a clock set back does by exactly the step
\* (Cache::is_fresh, effective_ttl, refresh).  A renewal forgets the limits of
\* the answer before it, see README.md.
HitsWithinLife ==
    \A q \in Requests :
       LET w == word[CacheKey(q)]
           line == FirstLine(w.h)
           spent == real - w.at - (drift - w.drift)
       IN  Hits(q) =>
           /\ spent < PlanTtl(w.conf)
           /\ \A i \in DOMAIN line :
                 IsAge(line[i]) /\ (\A j \in 1 .. i - 1 : ~ IsAge(line[j]))
                    => spent < line[i].arg
           /\ w.h.expires # Never => Clock < w.h.expires

\* What the cache serves unasked came in a successful answer without a cookie,
\* that varies by nothing but the headers of the key and whose first
\* Cache-Control line neither forbids to keep it nor wants it revalidated, and
\* it goes to a request that has no credentials and forces nothing, whatever
\* renewals and restarts there were since (cacheable_headers, begin_write,
\* plan, refresh).  Other lines, and those of a 304, are not looked at.
HitsAllowed ==
    \A q \in Requests :
       LET h == Answer[entry[CacheKey(q)].ver]
       IN  Hits(q) =>
           /\ h.status \in 200 .. 299 /\ ~ h.cookie
           /\ h.vary \subseteq SupportedVary
           /\ ~ q.private /\ ~ q.force
           /\ \A name \in {"no-store", "private", "no-cache"} :
                 Bare(name) \notin Directives(FirstLine(h))

\* A hit needs a cache that is enabled and a last matching rule with an age
\* other than 0 in the configuration in force, whatever was in force when the
\* response was stored.  The lifetime of what is served is within the age of the
\* last matching rule, and the default age, of the configuration under which it
\* was stored or last renewed (Cache::initialize, Cache::plan, refresh).
LastRuleDecides ==
    \A q \in Requests :
       LET c == word[CacheKey(q)].conf
           ttl == entry[CacheKey(q)].ttl
       IN  Hits(q) =>
           /\ config.enabled /\ config.max_age > 0 /\ config.max_size > 0
           /\ \E i \in DOMAIN config.whitelist :
                 Decides(config, i) /\ config.whitelist[i].max_age > 0
           /\ ttl <= c.max_age
           /\ \E i \in DOMAIN c.whitelist :
                 Decides(c, i) /\ ttl <= c.whitelist[i].max_age

\* A response that varies with a request header is served only for the value
\* it was given for, when both requests have the header once at most; a request
\* without it and one with an empty value share their response (cache_key).
VariantKept ==
    \A q \in Requests :
       LET by == word[CacheKey(q)].by
       IN  /\ Hits(q)
           /\ "accept" \in Answer[entry[CacheKey(q)].ver].vary
           /\ Len(q.accept) <= 1 /\ Len(by) <= 1
           => q.accept = by \/ {q.accept, by} = {<<>>, <<Blank>>}

\* The origin went back from version w to an earlier dated one, v.
RolledBack(v, w) ==
    Answer[v].lm # NoDate /\ Answer[v].lm < Answer[w].lm

\* An entry that only its own validators have confirmed was the origin's
\* current response at each confirmation, unless the origin had gone back to
\* an earlier one, which a date does not tell (add_validators, refresh).
ConfirmedIsCurrent ==
    \A k \in Keys :
       entry[k] # NoEntry /\ word[k].own =>
          word[k].said = entry[k].ver \/ RolledBack(word[k].said, entry[k].ver)

\* "a `304 Not Modified` response refreshes the cached metadata and serves the
\* stored body": the body a 304 vouched for is the one the origin has, or one
\* later than that.
RevalidatedIsCurrent ==
    \A k \in Keys :
       entry[k] # NoEntry =>
          word[k].said = entry[k].ver \/ RolledBack(word[k].said, entry[k].ver)

=============================================================================
