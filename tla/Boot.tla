-------------------------------- MODULE Boot --------------------------------
(***************************************************************************)
(* Everything main does before the server runs: the pending migrations     *)
(* (RunMigrations), the seeding of the database from the config file       *)
(* (config.Seed), and the key and scope stores built after it.  Each is a  *)
(* sequence of statements without a transaction around it.  An error is    *)
(* fatal, a supervisor starts the process again, and between two boots the *)
(* operator may install another release or edit the config file.           *)
(*                                                                         *)
(* Data.  A migration is its place in the order of the file names; release *)
(* r embeds the files 1..r, as files are only ever added.  What the config *)
(* says is a list of rows, each with the value an upsert gives it.         *)
(***************************************************************************)
EXTENDS Naturals, FiniteSets, Sequences, SequencesExt

CONSTANTS
  Latest,       \* the number of files of the newest release
  Repeatable,   \* the files that can be executed a second time without an error
  Configs,      \* the config files there may be
  NormalName,   \* NormalName[n]: the scope name n with its prefix
  Derived,      \* Derived[t]: the channel hash and the key of hashtag t
  Bad,          \* a border file that is missing or invalid, a key that is not hex
  NoValue,      \* a row that does not exist, a site without a border file
  MaxFailures, MaxChanges   \* bounds

Files == 1..Latest

IsList(s) == s \in Seq(Range(s))

\* 001 creates tables, so it cannot be executed twice.  A config has a map of
\* sites and lists of regions, of their sites and of scopes.
ASSUME BootAssumption ==
  /\ Latest \in Nat \ {0}
  /\ Repeatable \subseteq 2..Latest
  /\ \A cfg \in Configs :
       /\ IsFiniteSet(DOMAIN cfg.sites) /\ IsList(cfg.regions) /\ IsList(cfg.scopes)
       /\ \A region \in Range(cfg.regions) : IsList(region.sites)
       /\ \A site \in DOMAIN cfg.sites : cfg.sites[site].name # Bad
  /\ TRUE \notin {NoValue, Bad}
  /\ {MaxFailures, MaxChanges} \subseteq Nat

VARIABLES
  schema,     \* the files whose statements have taken effect
  recorded,   \* schema_migrations
  rows,       \* rows[r]: iata_codes, regions, region_iatas and transport_scopes
  phase,      \* where main is
  file,       \* the migration it has come to
  script,     \* the statements of Seed, in the order of this boot
  at,         \* the one it has come to
  scopes,     \* the ScopeStore
  keys,       \* the MapKeyStore, as pairs of a channel hash and a key
  release,    \* the installed release
  config,     \* the config file
  failures, changes   \* bounds

database == <<schema, recorded, rows>>
progress == <<phase, file, script, at>>
stores   == <<scopes, keys>>
setup    == <<release, config, changes>>
vars     == <<database, progress, stores, setup, failures>>

-----------------------------------------------------------------------------
(* What the config asks for *)

Statement(row, value) == [row |-> row, value |-> value]

\* UpsertIATADetails, and the border if a file is named.
SiteStatements(site, details) ==
  <<Statement(<<"details", site>>, details.name)>> \o
  IF details.border = NoValue THEN <<>>
                              ELSE <<Statement(<<"border", site>>, details.border)>>

\* UpsertRegion, then UpsertIATA and UpsertRegionIATA for each member.
RegionStatements(region) ==
  <<Statement(<<"region", region.slug>>, TRUE)>> \o
  FlattenSeq([i \in DOMAIN region.sites |->
    <<Statement(<<"iata", region.sites[i]>>, TRUE),
      Statement(<<"link", region.slug, region.sites[i]>>, TRUE)>>])

\* Seed ranges over a map of sites, in any order, and over two lists.
SeedScript(cfg, order) ==
  FlattenSeq([i \in DOMAIN order |-> SiteStatements(order[i], cfg.sites[order[i]])])
  \o FlattenSeq([i \in DOMAIN cfg.regions |-> RegionStatements(cfg.regions[i])])
  \o [i \in DOMAIN cfg.scopes |-> Statement(<<"scope", NormalName[cfg.scopes[i]]>>, TRUE)]

Orders(cfg) == SetToSeqs(DOMAIN cfg.sites)

\* What the config says, whatever the order: no row of it has two values.
Asked(cfg) ==
  {Statement(<<"details", s>>, cfg.sites[s].name) : s \in DOMAIN cfg.sites}
  \cup {Statement(<<"border", s>>, cfg.sites[s].border) :
          s \in {s \in DOMAIN cfg.sites : cfg.sites[s].border # NoValue}}
  \cup {Statement(<<"region", r.slug>>, TRUE) : r \in Range(cfg.regions)}
  \cup {Statement(<<"scope", NormalName[n]>>, TRUE) : n \in Range(cfg.scopes)}
  \cup UNION {UNION {{Statement(<<"iata", s>>, TRUE), Statement(<<"link", r.slug, s>>, TRUE)} :
                        s \in Range(r.sites)} : r \in Range(cfg.regions)}

\* The keys of the hashtags, and the explicit ones that can be decoded.
Keyring(cfg) ==
  {Derived[t] : t \in cfg.hashtags}
  \cup {<<h, cfg.keys[h]>> : h \in {h \in DOMAIN cfg.keys : cfg.keys[h] # Bad}}

ScopeRows == {r \in DOMAIN rows : r[1] = "scope" /\ rows[r] # NoValue}

-----------------------------------------------------------------------------
\* The rows any config names.
Rows == UNION {{s.row : s \in Asked(cfg)} : cfg \in Configs}

\* A new database, or one from before there was a schema_migrations.
Init ==
  /\ schema \in {{}, {1}}
  /\ recorded = {}
  /\ rows = [r \in Rows |-> NoValue]
  /\ phase = "down" /\ file = 1 /\ script = <<>> /\ at = 1
  /\ scopes = {} /\ keys = {}
  /\ release \in Files /\ config \in Configs
  /\ failures = 0 /\ changes = 0

-----------------------------------------------------------------------------
(* RunMigrations *)

Start ==
  /\ phase = "down"
  /\ phase' = "ledger"
  /\ UNCHANGED <<database, file, script, at, stores, setup, failures>>

\* Mutant: a database from before schema_migrations is taken for a new one.
LedgerPlain ==
  /\ phase = "ledger"
  /\ phase' = "check"
  /\ file' = 1
  /\ UNCHANGED <<database, script, at, stores, setup, failures>>

\* schema_migrations is created if need be; when it is empty although there is
\* a packets table, 001 is taken to be applied.
Ledger ==
  /\ phase = "ledger"
  /\ phase' = IF recorded = {} /\ 1 \in schema THEN "first" ELSE "check"
  /\ file' = 1
  /\ UNCHANGED <<database, script, at, stores, setup, failures>>

RecordFirst ==
  /\ phase = "first"
  /\ recorded' = recorded \cup {1}
  /\ phase' = "check"
  /\ UNCHANGED <<schema, rows, file, script, at, stores, setup, failures>>

\* The files that are recorded are passed over.
Skip ==
  /\ phase = "check" /\ file <= release /\ file \in recorded
  /\ file' = file + 1
  /\ UNCHANGED <<database, phase, script, at, stores, setup, failures>>

\* A file is one Exec of several statements, which is a transaction.
Apply ==
  /\ phase = "check" /\ file <= release /\ file \notin recorded
  /\ file \notin schema \/ file \in Repeatable
  /\ schema' = schema \cup {file}
  /\ phase' = "record"
  /\ UNCHANGED <<recorded, rows, file, script, at, stores, setup, failures>>

\* Mutant: the error is logged and the file passed over.
RejectedPassing ==
  /\ phase = "check" /\ file <= release /\ file \notin recorded
  /\ file \in schema \ Repeatable
  /\ file' = file + 1
  /\ UNCHANGED <<database, phase, script, at, stores, setup, failures>>

\* The error of a file that cannot be executed again is fatal.
Rejected ==
  /\ phase = "check" /\ file <= release /\ file \notin recorded
  /\ file \in schema \ Repeatable
  /\ phase' = "down"
  /\ UNCHANGED <<database, file, script, at, stores, setup, failures>>

Record ==
  /\ phase = "record"
  /\ recorded' = recorded \cup {file}
  /\ file' = file + 1
  /\ phase' = "check"
  /\ UNCHANGED <<schema, rows, script, at, stores, setup, failures>>

-----------------------------------------------------------------------------
(* Seed and the stores *)

BeginSeed ==
  /\ phase = "check" /\ file > release
  /\ phase' = "seed"
  /\ at' = 1
  /\ \E order \in Orders(config) : script' = SeedScript(config, order)
  /\ UNCHANGED <<database, file, stores, setup, failures>>

Upsert ==
  /\ phase = "seed" /\ at <= Len(script) /\ script[at].value # Bad
  /\ rows' = [rows EXCEPT ![script[at].row] = script[at].value]
  /\ at' = at + 1
  /\ UNCHANGED <<schema, recorded, phase, file, script, stores, setup, failures>>

\* Mutant: the site keeps the border it has.
RefusedPassing ==
  /\ phase = "seed" /\ at <= Len(script) /\ script[at].value = Bad
  /\ at' = at + 1
  /\ UNCHANGED <<database, phase, file, script, stores, setup, failures>>

\* A border file that cannot be read or does not validate is an error of Seed.
Refused ==
  /\ phase = "seed" /\ at <= Len(script) /\ script[at].value = Bad
  /\ phase' = "down"
  /\ UNCHANGED <<database, file, script, at, stores, setup, failures>>

\* The scopes are read back from the database, the keys are from the config.
\* The backfill and the workers that follow are in Ingest.
Load ==
  /\ phase = "seed" /\ at > Len(script)
  /\ scopes' = {r[2] : r \in ScopeRows}
  /\ keys' = Keyring(config)
  /\ phase' = "up"
  /\ UNCHANGED <<database, file, script, at, setup, failures>>

-----------------------------------------------------------------------------
(* The process and its operator *)

\* A statement fails before or after it took effect, or the process is killed.
Die ==
  /\ phase # "down" /\ failures < MaxFailures
  /\ failures' = failures + 1
  /\ phase' = "down"
  /\ scopes' = {} /\ keys' = {}
  /\ UNCHANGED <<database, file, script, at, setup>>

\* Another release, older or newer, or another config.
Redeploy ==
  /\ phase \in {"down", "up"} /\ changes < MaxChanges
  /\ changes' = changes + 1
  /\ release' \in Files /\ config' \in Configs
  /\ phase' = "down"
  /\ scopes' = {} /\ keys' = {}
  /\ UNCHANGED <<database, file, script, at, failures>>

Main == \/ Start \/ Ledger \/ RecordFirst \/ Skip \/ Apply \/ Rejected \/ Record
        \/ BeginSeed \/ Upsert \/ Refused \/ Load

Next == Main \/ Die \/ Redeploy

Spec == Init /\ [][Next]_vars

\* Statements return, and a supervisor starts a process that has ended.
FairSpec == Spec /\ WF_vars(Main)

-----------------------------------------------------------------------------
(* Properties *)

\* Every variable that RunMigrations uses has its type.
TypeOK ==
  /\ schema \subseteq Files /\ recorded \subseteq Files
  /\ phase \in {"down", "ledger", "first", "check", "record", "seed", "up"}
  /\ file \in 1..(Latest + 1) /\ release \in Files /\ config \in Configs
  /\ failures \in 0..MaxFailures /\ changes \in 0..MaxChanges

\* The files that a boot would execute again and the database would reject.
Stranded == \E f \in 2..release : f \in schema \ (recorded \cup Repeatable)

Misconfigured == \E s \in DOMAIN config.sites : config.sites[s].border = Bad

\* RunMigrations has no transaction around a file and its record, and starts
\* over at every boot: through crashes, rejected files and releases older than
\* the database, the files in effect are the first ones, and at most the last
\* of them lacks its record.
InOrder ==
  \E n, m \in 0..Latest :
    schema = 1..n /\ recorded = 1..m /\ n \in {m, m + 1}

\* Where RunMigrations is tells which files it has recorded.
Reached ==
  /\ phase = "first" => recorded = {} /\ 1 \in schema /\ file = 1
  /\ phase \in {"check", "record"} => 1..(file - 1) \subseteq recorded
  /\ phase = "check" /\ 1 \in schema => 1 \in recorded
  /\ phase = "record" => file \in schema \ recorded
  /\ phase \in {"seed", "up"} => 1..release \subseteq recorded

\* Workers and HTTP handlers run only on a schema that has all the release
\* needs and on rows that say what the config does, although boots that were
\* cut off, releases and configs since gone have written to the same rows; and
\* every configured scope and hashtag has its key in the stores.  Seed is "safe
\* to call on every startup" (the comment on it).
ServesConfig ==
  phase = "up" =>
    /\ 1..release \subseteq schema \cap recorded
    /\ \A s \in Asked(config) : rows[s.row] = s.value
    /\ {NormalName[n] : n \in Range(config.scopes)} \subseteq scopes
    /\ {Derived[t] : t \in config.hashtags} \subseteq keys

\* Where Seed is tells which rows say what the config does, whoever wrote them
\* before.
Seeded ==
  /\ DOMAIN rows = Rows
  /\ phase = "seed" =>
       /\ IsList(script) /\ Range(script) = Asked(config) /\ at \in Nat \ {0}
       /\ \A i \in DOMAIN script : i < at => rows[script[i].row] = script[i].value

\* The inductive invariant.
IInv == TypeOK /\ InOrder /\ Reached /\ Seeded /\ ServesConfig

\* The errors that come from a file are the two that GetsUp excuses: 001 above
\* all is never executed again, for Ledger knows it even without its record.
Excused == (Rejected => Stranded) /\ (Refused => Misconfigured)

\* "Database migrations are applied automatically on startup" (README:74): the
\* server gets up in the end whatever was cut off before, unless a border file
\* is bad or a crash has separated from its record a file other than 001 that
\* cannot be executed again.
GetsUp == <>[](phase = "up" \/ Stranded \/ Misconfigured)
=============================================================================
