------------------------------- MODULE Config -------------------------------
(***************************************************************************)
(* What internal/config makes of a configuration text, without state.  A   *)
(* text is what yaml.Unmarshal finds in it: a setting that is left out is  *)
(* "", 0 or missing from "times", and a duration that does not parse       *)
(* counts as 0, which is refused with it.                                  *)
(***************************************************************************)
EXTENDS Integers

Kinds == {"", "apt", "apk", "pypi"}

\* The defaults, in minutes and megabytes.
Defaults ==
  [size |-> 50000, versions |-> 5,
   times |-> [inactivity_ttl |-> 43200, cleanup_interval |-> 60,
              watch_interval |-> 1440, partial_ttl |-> 30]]

Durations == {"inactivity_ttl", "cleanup_interval", "watch_interval", "partial_ttl"}

Setting(value, default) == IF value # 0 THEN value ELSE default

\* A check that takes zero for a setting that was left out.
ZeroDurationsAccepted(text) ==
  /\ text.size >= 0 /\ text.versions >= 0
  /\ \A t \in DOMAIN text.times : text.times[t] >= 0

LifecycleAccepted(text) ==
  /\ text.size >= 0 /\ text.versions >= 0
  /\ \A t \in DOMAIN text.times : text.times[t] > 0

\* CacheSettings.Lifecycle, which resolves what is not set.
Lifecycle(text) ==
  [size     |-> Setting(text.size, Defaults.size),
   versions |-> Setting(text.versions, Defaults.versions),
   times    |-> [t \in Durations |-> IF t \in DOMAIN text.times THEN text.times[t]
                                     ELSE Defaults.times[t]]]

\* Upstream.MetadataRefreshInterval; its ttl is the set of the value, if given.
RefreshIntervals(u) ==
  IF u.ttl # {} THEN u.ttl ELSE IF u.security THEN {30} ELSE {360}

UpstreamAccepted(u) ==
  /\ u.name # "" /\ u.kind \in Kinds
  /\ u.primary = "url" /\ \A b \in u.backups : b = "url"
  /\ \A t \in u.ttl : t > 0

\* Config.Validate.  It does not look at admin.password_hash.
Validate(text) ==
  /\ text.listen # "" /\ text.dir # "" /\ text.upstreams # {}
  /\ LifecycleAccepted(text)
  /\ \A u \in text.upstreams : UpstreamAccepted(u)

Parse(text) == text.yaml /\ Validate(text)

\* What proofs need to know of a text: numbers where there are numbers.
IsText(text) ==
  /\ text.size \in Int /\ text.versions \in Int
  /\ DOMAIN text.times \subseteq Durations
  /\ \A t \in DOMAIN text.times : text.times[t] \in Int
  /\ \A u \in text.upstreams : u.ttl \subseteq Int

\* What the workers need of a configuration: time.NewTicker panics on an
\* interval that is not positive, and a pass refuses a count below one.
Usable(text) ==
  LET life == Lifecycle(text) IN
  /\ life.size > 0 /\ life.versions > 0 /\ \A t \in Durations : life.times[t] > 0
  /\ \A u \in text.upstreams : \A t \in RefreshIntervals(u) : t > 0
=============================================================================
