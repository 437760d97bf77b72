-------------------------- MODULE MCFirmwareCatalog --------------------------
(***************************************************************************)
(* Small instances of FirmwareCatalog: each behaviour belongs to one part, *)
(* which has its own limits.                                               *)
(***************************************************************************)
EXTENDS FirmwareCatalog, TLC

CONSTANTS w1, w2, s1, s2

VARIABLES
  part,     \* what this behaviour is about
  begun,    \* requests begun that change the catalog
  started   \* flash starters begun

-----------------------------------------------------------------------------
\* Firmware: uploads of either image, promoted or not; updates that promote, lock the
\* default off, replace the binary or rename its file.
MCUploads ==
  {[version |-> 0, released |-> FALSE, promote |-> FALSE, image |-> "A", ext |-> "bin"],
   [version |-> 0, released |-> FALSE, promote |-> TRUE, image |-> "B", ext |-> "bin"]}

Update(version, default, current, image, ext) ==
  [version |-> version, released |-> "keep", default |-> default, current |-> current,
   image |-> image, ext |-> ext]

MCUpdates ==
  {Update(0, "keep", "yes", "none", "bin"), Update(2, "keep", "no", "none", "bin"),
   Update(0, "no", "keep", "none", "bin"), Update(0, "keep", "keep", "B", "bin"),
   Update(0, "keep", "keep", "A", "hex")}

Limit(admins, requests, ops, uploaded, roles, starts, faults) ==
  [admins |-> admins, requests |-> requests, ops |-> ops \union {"none"}, uploaded |-> uploaded,
   roles |-> [s \in Starters |-> roles[s] \union {"none"}], starts |-> starts,
   faults |-> faults]

NoStarts == [s \in Starters |-> {}]

\* Failing steps one after another; two administrators; a flash, with its retries and
\* aborts, against changes of the catalog; flashes against each other; with failing steps
\* and desired versions.
Limits ==
  [failures |-> Limit({w1}, 4, {"upload", "default", "release", "update", "delete"}, 2,
                      NoStarts, 0, 1),
   races |-> Limit({w1, w2}, 4, {"upload", "default", "delete"}, 2, NoStarts, 0, 0),
   flashes |-> Limit({w1}, 2, {"upload", "update", "delete"}, 1,
                     (s1 :> {"request"} @@ s2 :> {"retry", "abort"}), 2, 0),
   twice |-> Limit({w1}, 1, {"upload"}, 1,
                   (s1 :> {"auto"} @@ s2 :> {"auto", "abort", "retry"}), 3, 0),
   faults |-> Limit({w1}, 1, {"upload"}, 1, (s1 :> {"auto"} @@ s2 :> {"request"}), 2, 1)]

\* Beside flashes an update brings a binary, and an upload is promoted where updates start
\* by themselves.
WithinLimits(l) ==
  /\ begun' = begun + Cardinality({a \in Admins : ~Busy(a) /\ Busy(a)'})
  /\ started' = started
       + Cardinality({s \in Starters : starter[s].pc = "idle" /\ starter'[s].pc # "idle"})
  /\ started' <= l.starts /\ begun' <= l.requests /\ broken' <= l.faults
  /\ \A a \in Admins : admin'[a].op \in l.ops /\ (a \notin l.admins => admin'[a] = NoRequest)
  /\ \A s \in Starters : starter'[s].op \in l.roles[s]
  /\ l.starts > 0 => \A a \in Admins :
       /\ admin'[a].op = "update" => admin'[a].image # "none"
       /\ admin'[a].op = "upload" => admin'[a].promote = ("auto" \in l.roles[s1])
  /\ Cardinality({f \in Firmwares : \E a \in Admins :
                    firmware'[f] # NoFirmware \/ admin'[a].fw = f}) <= l.uploaded
  /\ device' # device => l.starts > 0 /\ l.faults > 0

-----------------------------------------------------------------------------
CatalogParts == DOMAIN Limits

MCCatalogInit == begun = 0 /\ started = 0 /\ CatalogInit

MCCatalogNext == CatalogNext /\ WithinLimits(Limits[part])

mcCatalogVars == <<begun, started, catalogVars>>

MCCatalogSpec ==
  /\ part \in CatalogParts /\ MCCatalogInit
  /\ [][UNCHANGED part /\ MCCatalogNext]_<<part, mcCatalogVars>>

\* Ids that no part gives a role of its own are interchangeable.
CatalogSymmetry == Permutations(Firmwares) \union Permutations(FlashJobs)
=============================================================================
