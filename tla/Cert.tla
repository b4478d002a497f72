------------------------------- MODULE Cert -------------------------------
(***************************************************************************)
(* The certificate of one node: node/cert.go, node/lego.go and             *)
(* node/options.go.  The monitor (Controller.Start and nodeInfoMonitor)    *)
(* and the renewal task both run requestCertAndReport, without a lock, on  *)
(* the same certificate, key, metadata and account files.                  *)
(*                                                                         *)
(* A certificate is a number; its key has the same number.  A file that    *)
(* was truncated and not yet written holds Torn.  Time is the validity     *)
(* left: 2 more than 30 days, 1 more than 72 hours, 0 less or none.        *)
(* The files have one path: the panel's configuration names it or, as      *)
(* buildPanelCertConfig does, takes it from the node's id.  A path of the  *)
(* configuration file may have parameters in it.                           *)
(***************************************************************************)
EXTENDS Integers

CONSTANTS
    MaxIds,        \* certificates ever issued
    Targets,       \* hosts, addresses and what else a target may be
    NoTarget,      \* the empty target
    PublicTargets, \* what validateAutoCertTarget lets through
    IPs,           \* the targets that are addresses
    Local,         \* CertConfig of the configuration file
    PanelConfigs,  \* what the panel may send
    MaxFaults,     \* failed writes and lost reports
    MaxChanges     \* of the panel's configuration

Modes == {"", "none", "file", "dns", "http", "auto", "self", "unknown"}

Sources == {"", "file", "auto", "self", "acme_dns", "acme_ip", "acme_http"}

(* CertFile and KeyFile: not both given, names, or names with {domain} or  *)
(* {email} in them.                                                        *)
Paths == {"none", "plain", "params"}

CertConfig == [mode : Modes, target : Targets, paths : Paths,
               dns : BOOLEAN, fallback : BOOLEAN]

(* buildPanelCertConfig, which always names the two files.  A panel that   *)
(* has no certificate fields is one with an empty mode.                    *)
PanelConfig == [mode : Modes, target : Targets, paths : {"plain"},
                dns : BOOLEAN, fallback : BOOLEAN, fallbackSet : BOOLEAN]

ASSUME CertAssumption ==
    /\ MaxIds \in Nat
    /\ MaxFaults \in Nat /\ MaxChanges \in Nat
    /\ NoTarget \in Targets \ PublicTargets
    /\ IPs \subseteq Targets /\ NoTarget \notin IPs
    /\ Local \in CertConfig
    /\ PanelConfigs \subseteq PanelConfig

Ids == 1 .. MaxIds
Absent == 0
Torn == -1

Contents == Ids \cup {Absent, Torn}

(* certMetadata without the times; NoMeta is nil, and a file that is       *)
(* absent or does not decode.                                              *)
Metadata == [cert : Ids \cup {Absent}, mode : Modes, target : Targets,
             source : Sources]

NoMeta == [cert |-> Absent, mode |-> "", target |-> NoTarget, source |-> ""]

Procs == {"monitor", "renewal"}

PCs == {"idle", "read", "look", "user", "register", "save", "obtain",
        "truncCert", "writeCert", "truncKey", "writeKey", "load", "meta", "report",
        "del", "add"}

Writing == {"writeCert", "truncKey", "writeKey"}

VARIABLES
    issued, certs,  \* the certificates so far, and what each says
    certFile, keyFile, meta, account, \* the four files
    panel,     \* what the panel sends
    news,      \* and that the client has not fetched it yet
    active,    \* c.activeOptions.CertConfig
    alive,     \* the process runs
    starting,  \* Controller.Start has not returned
    renewal,   \* renewCertPeriodic was started
    up,        \* the core has the node
    loaded,    \* the certificate it loaded; Torn if it could use none
    pc, req,   \* where a request is, and its locals
    told,      \* the certificate the panel was last told of
    faults, changes,
    pairOk,    \* history: the last write of the two files was undisturbed
    metaLost,  \* history: the last write of the metadata failed
    reloaded,  \* history: the metadata of the renewal's last reload
    overlap    \* history: the last requests ran side by side

disk == <<certFile, keyFile, meta, account>>
files == <<issued, certs, disk>>
node == <<active, alive, starting, renewal, up, loaded>>
bounds == <<faults, changes>>
history == <<pairOk, metaLost, reloaded, overlap>>
certVars == <<files, panel, news, node, pc, req, told, bounds, history>>

Certificate == [ca : BOOLEAN, target : Targets, left : 0 .. 2]

(* The locals of requestCertAndReport and what it calls.  clean is         *)
(* history: nobody else wrote since this request began to.                 *)
Request == [cfg : CertConfig, prev : Metadata, next : Metadata,
            failed : BOOLEAN, own : Ids \cup {Absent}, self : BOOLEAN,
            clean : BOOLEAN]

NoRequest == [cfg |-> Local, prev |-> NoMeta, next |-> NoMeta,
              failed |-> FALSE, own |-> Absent, self |-> FALSE,
              clean |-> TRUE]

Other(p) == IF p = "monitor" THEN "renewal" ELSE "monitor"

---------------------------------------------------------------------------
(* Options and targets.                                                    *)

(* effectiveCertConfig: a panel that names a mode replaces the local       *)
(* certificate configuration; the fallback is taken when it is set.        *)
Effective(n) ==
    LET base == IF n.mode = "" THEN Local ELSE n
    IN  [mode |-> base.mode, target |-> base.target, paths |-> base.paths,
         dns |-> base.dns,
         fallback |-> IF n.fallbackSet THEN n.fallback ELSE Local.fallback]

(* renewBefore.                                                            *)
Window(t) == IF t \in IPs THEN 0 ELSE 1

(* managedCertSource and autoCertChallenge.                                *)
Source(c) ==
    CASE c.mode = "auto" /\ c.target \in IPs -> "acme_ip"
      [] c.mode = "dns" \/ (c.mode = "auto" /\ c.dns) -> "acme_dns"
      [] c.mode = "http" /\ c.target \in IPs -> "acme_ip"
      [] c.mode = "self" -> "self"
      [] OTHER -> "acme_http"

(* What is refused before any file is looked at: validateCertPaths, the    *)
(* empty target, validateAutoCertTarget, an unknown mode.                  *)
Invalid(c) ==
    \/ c.paths = "none"
    \/ c.mode = "unknown"
    \/ c.mode \in {"dns", "http", "self"} /\ c.target = NoTarget
    \/ c.mode = "auto" /\ c.target \notin PublicTargets

(* generateSelfSslCertificate sets BasicConstraintsValid without IsCA, and *)
(* x509's CheckSignatureFrom refuses a parent that is no CA, so that       *)
(* isSelfSignedCertificate does not recognise the program's own.           *)
TemplateIsCA == FALSE

IsSelfSigned(i) == ~certs[i].ca /\ TemplateIsCA

(* certificateReady.  Only the certificate is examined, not its key.       *)
Ready(c, i) ==
    /\ i \in Ids
    /\ keyFile # Absent
    /\ certs[i].left > (IF c.mode = "self" THEN 1 ELSE Window(c.target))
    /\ certs[i].target = c.target
    /\ c.mode = "self" \/ ~IsSelfSigned(i)

MetaOf(c, i, source) ==
    [cert |-> i, mode |-> c.mode, target |-> c.target, source |-> source]

(* Mutant: the fingerprint is not compared.                                *)
ChangedButCert(r) ==
    r.next # NoMeta /\ [r.prev EXCEPT !.cert = Absent]
                          # [r.next EXCEPT !.cert = Absent]

(* Mutant: the time of the metadata is compared too, which always differs. *)
ChangedAlways(r) == r.next # NoMeta

(* certMetadataChanged.                                                    *)
Changed(r) == r.next # NoMeta /\ r.prev # r.next

Goto(p, l) == pc' = [pc EXCEPT ![p] = l]

CertInit ==
    /\ issued = 0
    /\ certs = [i \in Ids |-> [ca |-> FALSE, target |-> NoTarget, left |-> 0]]
    /\ certFile = Absent /\ keyFile = Absent
    /\ meta = NoMeta /\ account = "absent"
    /\ panel \in PanelConfigs /\ news = FALSE /\ active = Local
    /\ alive = FALSE /\ starting = FALSE /\ renewal = FALSE
    /\ up = FALSE /\ loaded = Absent /\ told = Absent
    /\ pc = [p \in Procs |-> "idle"] /\ req = [p \in Procs |-> NoRequest]
    /\ faults = 0 /\ changes = 0
    /\ pairOk = TRUE /\ metaLost = FALSE /\ reloaded = NoMeta
    /\ overlap = FALSE

---------------------------------------------------------------------------
(* Around the request.                                                     *)

(* The process is gone: a crash, a panic, or a Start that failed.          *)
Gone ==
    /\ alive' = FALSE /\ starting' = FALSE /\ renewal' = FALSE
    /\ up' = FALSE /\ loaded' = Absent
    /\ pc' = [p \in Procs |-> "idle"] /\ req' = [p \in Procs |-> NoRequest]
    /\ pairOk' = (pairOk /\ \A p \in Procs : pc[p] \notin Writing)
    /\ reloaded' = NoMeta /\ overlap' = FALSE
    /\ UNCHANGED active

(* The panel sends something new from now on; the part about the           *)
(* certificate may be the same.                                            *)
SetConfig ==
    /\ changes < MaxChanges
    /\ changes' = changes + 1
    /\ panel' \in PanelConfigs /\ news' = TRUE
    /\ UNCHANGED <<files, node, pc, req, told, faults, history>>

(* Controller.Start, up to the request: optionsForNode.                    *)
StartController ==
    /\ ~alive
    /\ alive' = TRUE /\ starting' = TRUE
    /\ active' = Effective(panel) /\ news' = FALSE
    /\ Goto("monitor", "read")
    /\ UNCHANGED <<files, panel, renewal, up, loaded, req, told, bounds,
                   history>>

(* nodeInfoMonitor with a new configuration, up to the request.  A node    *)
(* that is not there panics in DelNode.                                    *)
ReloadNode ==
    /\ alive /\ ~starting /\ pc["monitor"] = "idle"
    /\ news /\ news' = FALSE
    /\ IF up
       THEN /\ active' = Effective(panel)
            /\ up' = FALSE /\ loaded' = Absent
            /\ Goto("monitor", "read")
            /\ reloaded' = NoMeta /\ overlap' = (pc["renewal"] # "idle")
            /\ UNCHANGED <<alive, starting, renewal, req, pairOk>>
       ELSE Gone
    /\ UNCHANGED <<files, panel, told, bounds, metaLost>>

(* renewCertTask.                                                          *)
RenewBegins ==
    /\ renewal /\ pc["renewal"] = "idle"
    /\ Goto("renewal", "read")
    /\ overlap' = (pc["monitor"] # "idle")
    /\ UNCHANGED <<files, panel, news, node, req, told, bounds, pairOk,
                   metaLost, reloaded>>

(* The process dies at any moment.                                         *)
Crash ==
    /\ alive /\ faults < MaxFaults
    /\ faults' = faults + 1
    /\ Gone
    /\ UNCHANGED <<files, panel, news, told, changes, metaLost>>

(* Time passes.  A self-signed certificate is good for thirty years.       *)
Age ==
    /\ \E i \in Ids : certs[i].ca /\ certs[i].left > 0
    /\ certs' = [i \in Ids |->
           IF certs[i].ca /\ certs[i].left > 0
           THEN [certs[i] EXCEPT !.left = @ - 1] ELSE certs[i]]
    /\ UNCHANGED <<issued, disk, panel, news, node, pc, req, told, bounds,
                   history>>

---------------------------------------------------------------------------
(* requestCert.                                                            *)

Set(p, r) == req' = [req EXCEPT ![p] = r]

(* A new certificate and its key.                                          *)
Issue(c) ==
    /\ issued < MaxIds
    /\ issued' = issued + 1
    /\ certs' = [certs EXCEPT ![issued'] = c]

(* The request ends with an error, which is reported.                      *)
RequestFails(p) ==
    /\ Set(p, [req[p] EXCEPT !.failed = TRUE,
                             !.next = MetaOf(req[p].cfg, Absent, "")])
    /\ Goto(p, "report")
    /\ UNCHANGED <<issued, certs>>

(* generateSelfSslCertificate, up to the first file.                       *)
Generate(p, r) ==
    /\ Issue([ca |-> FALSE, target |-> r.cfg.target, left |-> 2])
    /\ Set(p, [r EXCEPT !.own = issued', !.self = TRUE])
    /\ Goto(p, "truncCert")

(* issueLegoCert returns an error: fall back, in mode auto and if allowed. *)
IssueFails(p) ==
    IF req[p].cfg.mode = "auto" /\ req[p].cfg.fallback
    THEN Generate(p, req[p]) ELSE RequestFails(p)

(* An error after the new pair was made.                                   *)
StepFails(p) == IF req[p].self THEN RequestFails(p) ELSE IssueFails(p)

(* readCertMetadata, currentCertConfig, and the switch on the mode.        *)
ReadConfig(p) ==
    /\ pc[p] = "read"
    /\ LET c == active
           r == [NoRequest EXCEPT !.cfg = c, !.prev = meta]
           invalid == c.mode \notin {"", "none"} /\ Invalid(c)
       IN  /\ Set(p, IF invalid
                     THEN [r EXCEPT !.failed = TRUE,
                                    !.next = MetaOf(c, Absent, "")]
                     ELSE r)
           /\ Goto(p, IF c.mode \in {"", "none"} \/ invalid
                      THEN "report" ELSE "look")
    /\ UNCHANGED <<files, panel, news, node, told, bounds, history>>

(* Mode file: the two files exist and the certificate parses.  Nothing is  *)
(* written.                                                                *)
LookFile(p) ==
    /\ pc[p] = "look" /\ req[p].cfg.mode = "file"
    /\ IF certFile \in Ids /\ keyFile # Absent
       THEN /\ Set(p, [req[p] EXCEPT
                          !.next = MetaOf(req[p].cfg, certFile, "file")])
            /\ Goto(p, "report")
            /\ UNCHANGED <<issued, certs>>
       ELSE RequestFails(p)
    /\ UNCHANGED <<disk, panel, news, node, told, bounds, history>>

(* Mutant: a certificate that parses is good, whatever time it has left.   *)
LookNoWindow(p) ==
    /\ pc[p] = "look" /\ req[p].cfg.mode # "file"
    /\ Set(p, [req[p] EXCEPT
                  !.next = MetaOf(req[p].cfg, certFile, Source(req[p].cfg))])
    /\ Goto(p, IF certFile \in Ids THEN "meta" ELSE "user")
    /\ UNCHANGED <<issued, certs, disk, panel, news, node, told, bounds,
                   history>>

(* The other modes: certificateReady, and what follows from it.            *)
Look(p) ==
    /\ pc[p] = "look" /\ req[p].cfg.mode # "file"
    /\ LET c == req[p].cfg IN
       \/ /\ Ready(c, certFile)
          /\ Set(p, [req[p] EXCEPT !.next = MetaOf(c, certFile, Source(c))])
          /\ Goto(p, "meta")
          /\ UNCHANGED <<issued, certs>>
       \/ /\ ~Ready(c, certFile) /\ c.mode # "self"
          /\ Goto(p, "user")
          /\ UNCHANGED <<req, issued, certs>>
       \/ /\ ~Ready(c, certFile) /\ c.mode = "self"
          /\ Generate(p, req[p])
    /\ UNCHANGED <<disk, panel, news, node, told, bounds, history>>

(* NewLegoUser: load the account, or register one.                         *)
LoadUser(p) ==
    /\ pc[p] = "user"
    /\ \/ /\ account = "good"
          /\ Goto(p, "obtain")
          /\ UNCHANGED <<issued, certs, account, req>>
       \/ /\ account = "torn"
          /\ IssueFails(p)
          /\ UNCHANGED account
       \/ /\ account = "absent"
          /\ Goto(p, "register")
          /\ UNCHANGED <<issued, certs, account, req>>
    /\ UNCHANGED <<certFile, keyFile, meta, panel, news, node, told, bounds,
                   history>>

(* registerUser: the authority answers, and User.Save opens the file,      *)
(* which the other task may have written in the meantime.                  *)
RegisterUser(p) ==
    /\ pc[p] = "register"
    /\ account' = "torn"
    /\ Goto(p, "save")
    /\ UNCHANGED <<issued, certs, certFile, keyFile, meta, panel, news,
                   node, req, told, bounds, history>>

(* User.Save writes the file it truncated.                                 *)
SaveUser(p) ==
    /\ pc[p] = "save"
    /\ account' = "good"
    /\ Goto(p, "obtain")
    /\ UNCHANGED <<issued, certs, certFile, keyFile, meta, panel, news,
                   node, req, told, bounds, history>>

(* Certificate.Obtain succeeds.  One for an address is short-lived.        *)
(* writeCert replaces parameters in the paths, which nobody else does: the *)
(* pair goes to files that no one reads.                                   *)
Obtain(p) ==
    /\ pc[p] = "obtain"
    /\ Issue([ca |-> TRUE, target |-> req[p].cfg.target,
              left |-> IF req[p].cfg.target \in IPs THEN 1 ELSE 2])
    /\ Set(p, [req[p] EXCEPT !.own = issued'])
    /\ Goto(p, IF req[p].cfg.paths = "params" THEN "load" ELSE "truncCert")
    /\ UNCHANGED <<disk, panel, news, node, told, bounds, history>>

(* The authority refuses to register the account, or to issue; or the      *)
(* challenge provider cannot be set.                                       *)
AcmeRefuses(p) ==
    /\ pc[p] \in {"register", "obtain"}
    /\ IssueFails(p)
    /\ UNCHANGED <<disk, panel, news, node, told, bounds, history>>

(* writeCert and generateSelfSslCertificate: the certificate, then the     *)
(* key, each truncated and then written.                                   *)
TruncateCert(p) ==
    /\ pc[p] = "truncCert"
    /\ certFile' = Torn
    /\ req' = [q \in Procs |->
           [req[q] EXCEPT !.clean =
               IF q = p THEN pc[Other(p)] \notin Writing ELSE FALSE]]
    /\ Goto(p, "writeCert")
    /\ UNCHANGED <<issued, certs, keyFile, meta, account, panel, news, node,
                   told, bounds, history>>

WriteCert(p) ==
    /\ pc[p] = "writeCert"
    /\ certFile' = req[p].own
    /\ Goto(p, "truncKey")
    /\ UNCHANGED <<issued, certs, keyFile, meta, account, panel, news, node,
                   req, told, bounds, history>>

(* Mutant: a key that is there is kept.                                    *)
TruncateKeyOnce(p) ==
    /\ pc[p] = "truncKey"
    /\ IF keyFile = Absent
       THEN keyFile' = Torn /\ Goto(p, "writeKey") /\ UNCHANGED pairOk
       ELSE pairOk' = req[p].clean /\ Goto(p, "load") /\ UNCHANGED keyFile
    /\ UNCHANGED <<issued, certs, certFile, meta, account, panel, news,
                   node, req, told, bounds, metaLost, reloaded, overlap>>

TruncateKey(p) ==
    /\ pc[p] = "truncKey"
    /\ keyFile' = Torn
    /\ Goto(p, "writeKey")
    /\ UNCHANGED <<issued, certs, certFile, meta, account, panel, news,
                   node, req, told, bounds, history>>

WriteKey(p) ==
    /\ pc[p] = "writeKey"
    /\ keyFile' = req[p].own
    /\ pairOk' = req[p].clean
    /\ Goto(p, "load")
    /\ UNCHANGED <<issued, certs, certFile, meta, account, panel, news,
                   node, req, told, bounds, metaLost, reloaded, overlap>>

(* Mutant: the new certificate is described without parsing the file.      *)
LoadBackUnparsed(p) ==
    /\ pc[p] = "load"
    /\ Set(p, [req[p] EXCEPT !.next = MetaOf(req[p].cfg, certFile, "self")])
    /\ Goto(p, "meta")
    /\ UNCHANGED <<issued, certs, disk, panel, news, node, told, bounds,
                   history>>

(* loadCertificate: whatever the file holds by now.                        *)
LoadBack(p) ==
    /\ pc[p] = "load"
    /\ IF certFile \in Ids
       THEN /\ Set(p, [req[p] EXCEPT !.next = MetaOf(req[p].cfg, certFile,
                          IF req[p].self THEN "self" ELSE Source(req[p].cfg))])
            /\ Goto(p, "meta")
            /\ UNCHANGED <<issued, certs>>
       ELSE StepFails(p)
    /\ UNCHANGED <<disk, panel, news, node, told, bounds, history>>

(* writeCertMetadata.                                                      *)
WriteMeta(p) ==
    /\ pc[p] = "meta"
    /\ meta' = req[p].next
    /\ metaLost' = FALSE
    /\ Goto(p, "report")
    /\ UNCHANGED <<issued, certs, certFile, keyFile, account, panel, news,
                   node, req, told, bounds, pairOk, reloaded, overlap>>

(* A file cannot be opened or written.  The error of the metadata is       *)
(* ignored, with the file as it was or truncated.                          *)
DiskFault(p) ==
    /\ faults < MaxFaults
    /\ faults' = faults + 1
    /\ \/ /\ pc[p] \in {"truncCert", "register", "save"} \cup Writing
          /\ StepFails(p)
          /\ pairOk' = (pairOk /\ pc[p] \notin Writing)
          /\ UNCHANGED <<meta, metaLost, reloaded>>
       \/ /\ pc[p] = "meta"
          /\ meta' \in {meta, NoMeta}
          /\ metaLost' = TRUE /\ reloaded' = NoMeta
          /\ Goto(p, "report")
          /\ UNCHANGED <<issued, certs, req, pairOk>>
    /\ UNCHANGED <<certFile, keyFile, account, panel, news, node, told,
                   changes, overlap>>

---------------------------------------------------------------------------
(* The end of requestCertAndReport, and its callers.                       *)

Done(p) == Goto(p, "idle") /\ Set(p, NoRequest)

(* Without an error the monitor goes on to AddNode, and the renewal        *)
(* reloads the node when the metadata changed.  With one, Start fails and  *)
(* a reload leaves the node removed.                                       *)
Return(p) ==
    LET r == req[p] IN
    \/ /\ r.failed /\ p = "monitor" /\ starting
       /\ Gone /\ UNCHANGED metaLost
    \/ /\ r.failed /\ ~(p = "monitor" /\ starting)
       /\ Done(p) /\ UNCHANGED <<node, history>>
    \/ /\ ~r.failed /\ p = "monitor"
       /\ Goto(p, "add") /\ UNCHANGED <<node, req, history>>
    \/ /\ ~r.failed /\ p = "renewal" /\ Changed(r)
       /\ Goto(p, "del") /\ UNCHANGED <<node, req, history>>
    \/ /\ ~r.failed /\ p = "renewal" /\ ~Changed(r)
       /\ Done(p) /\ UNCHANGED <<node, history>>

(* Mutant: the metadata read at the start are reported.                    *)
ReportPrevious(p) ==
    /\ pc[p] = "report"
    /\ told' = IF req[p].next = NoMeta THEN told ELSE req[p].prev.cert
    /\ Return(p)
    /\ UNCHANGED <<files, panel, news, bounds>>

(* reportCertStatus: nothing is said without metadata.                     *)
Report(p) ==
    /\ pc[p] = "report"
    /\ told' = IF req[p].next = NoMeta THEN told ELSE req[p].next.cert
    /\ Return(p)
    /\ UNCHANGED <<files, panel, news, bounds>>

(* The report does not reach the panel, which is only logged.              *)
ReportLost(p) ==
    /\ pc[p] = "report" /\ req[p].next # NoMeta
    /\ faults < MaxFaults
    /\ faults' = faults + 1
    /\ Return(p)
    /\ UNCHANGED <<files, panel, news, told, changes>>

(* What AddNode of a core loads (external): no certificate in mode none, a *)
(* pair that matches, or, from another pair, none that can be used.        *)
Loads(c) ==
    IF c.mode \in {"", "none"} THEN {Absent}
    ELSE IF certFile \in Ids /\ keyFile = certFile THEN {certFile}
    ELSE {Torn}

(* AddNode and AddUsers for the monitor; after Start come the tasks.       *)
AddNode ==
    /\ pc["monitor"] = "add"
    /\ up' = TRUE /\ loaded' \in Loads(active)
    /\ starting' = FALSE
    /\ renewal' = IF starting
                  THEN active.mode \notin {"", "none", "file", "self"}
                  ELSE renewal
    /\ Done("monitor")
    /\ UNCHANGED <<files, panel, news, active, alive, told, bounds,
                   history>>

(* A core that checks the pair refuses: Start fails, a reload panics.      *)
AddNodeRefused ==
    /\ pc["monitor"] = "add" /\ Torn \in Loads(active)
    /\ Gone
    /\ UNCHANGED <<files, panel, news, told, bounds, metaLost>>

(* reloadNodeAfterCertChange.                                              *)
ReloadDel ==
    /\ pc["renewal"] = "del"
    /\ IF up
       THEN /\ up' = FALSE /\ loaded' = Absent
            /\ Goto("renewal", "add")
            /\ reloaded' = IF metaLost \/ overlap
                            THEN NoMeta ELSE req["renewal"].next
            /\ UNCHANGED req
       ELSE Done("renewal") /\ UNCHANGED <<up, loaded, reloaded>>
    /\ UNCHANGED <<files, panel, news, active, alive, starting, renewal,
                   told, bounds, pairOk, metaLost, overlap>>

ReloadAdd ==
    /\ pc["renewal"] = "add"
    /\ \/ up' = TRUE /\ loaded' \in Loads(active)
       \/ Torn \in Loads(active) /\ UNCHANGED <<up, loaded>>
    /\ Done("renewal")
    /\ UNCHANGED <<files, panel, news, active, alive, starting, renewal,
                   told, bounds, history>>

---------------------------------------------------------------------------
RequestStep(p) ==
    \/ ReadConfig(p) \/ LookFile(p) \/ Look(p) \/ LoadUser(p)
    \/ RegisterUser(p) \/ SaveUser(p) \/ Obtain(p)
    \/ TruncateCert(p) \/ WriteCert(p) \/ TruncateKey(p)
    \/ WriteKey(p) \/ LoadBack(p) \/ WriteMeta(p) \/ Report(p)

CertNext ==
    \/ SetConfig \/ StartController \/ ReloadNode \/ RenewBegins
    \/ Crash \/ Age
    \/ AddNode \/ AddNodeRefused \/ ReloadDel \/ ReloadAdd
    \/ \E p \in Procs :
          RequestStep(p) \/ AcmeRefuses(p) \/ DiskFault(p) \/ ReportLost(p)

(* Requests run on, the renewal's ticker ticks, and an authority that the  *)
(* renewal asks again and again registers the account and issues in the    *)
(* end.                                                                    *)
CertFairness ==
    /\ \A p \in Procs : WF_certVars(RequestStep(p))
    /\ SF_certVars(RegisterUser("renewal")) /\ SF_certVars(Obtain("renewal"))
    /\ WF_certVars(RenewBegins)
    /\ WF_certVars(ReloadDel) /\ WF_certVars(ReloadAdd)
    /\ WF_certVars(AddNode \/ AddNodeRefused)

CertSpec == CertInit /\ [][CertNext]_certVars /\ CertFairness

---------------------------------------------------------------------------
(* Every file, request and counter has a value the code can give it; in    *)
(* particular metadata never names a certificate that did not parse.       *)
CertTypeOK ==
    /\ issued \in 0 .. MaxIds /\ certs \in [Ids -> Certificate]
    /\ certFile \in Contents /\ keyFile \in Contents
    /\ meta \in Metadata /\ account \in {"absent", "torn", "good"}
    /\ panel \in PanelConfigs /\ news \in BOOLEAN /\ active \in CertConfig
    /\ alive \in BOOLEAN /\ starting \in BOOLEAN /\ renewal \in BOOLEAN
    /\ up \in BOOLEAN /\ loaded \in Contents /\ told \in Ids \cup {Absent}
    /\ pc \in [Procs -> PCs] /\ req \in [Procs -> Request]
    /\ faults \in 0 .. MaxFaults /\ changes \in 0 .. MaxChanges
    /\ pairOk \in BOOLEAN /\ metaLost \in BOOLEAN
    /\ reloaded \in Metadata /\ overlap \in BOOLEAN

(* writeCert and generateSelfSslCertificate write the certificate and then *)
(* its key.  Outside these writes the two files belong together, unless    *)
(* the last write was cut off by a crash or an error, or ran at the same   *)
(* time as one of the other task.                                          *)
PairMatches ==
    pairOk /\ (\A p \in Procs : pc[p] \notin Writing) => certFile = keyFile

Quiet == \A p \in Procs : pc[p] = "idle"

WithTls == up /\ active.mode \notin {"", "none"}

(* The node serves the certificate in the file whenever neither task is at *)
(* work: the renewal reloads after every change that AddNode of the        *)
(* monitor has not picked up, whatever becomes of the metadata it decides  *)
(* by.                                                                     *)
ServesCurrent == Quiet /\ WithTls /\ pairOk => loaded = certFile

(* Clients pin the certificate that reportCertStatus names.  With both     *)
(* tasks at rest it is the one the node serves, unless a report was lost   *)
(* or the last requests overlapped, when an older report may come last.    *)
PinnedIsServed ==
    Quiet /\ WithTls /\ pairOk /\ told \in Ids /\ faults = 0 /\ ~overlap
        => loaded = told

(* Each reload by renewCertTask cuts every connection.  It does not do so  *)
(* twice in a row for the same metadata, except in mode file, which never  *)
(* stores them, and when they were lost or another request wrote them.     *)
NoRepeatedReload ==
    [][pc["renewal"] = "del" /\ pc'["renewal"] = "add"
          => \/ req["renewal"].next # reloaded
             \/ req["renewal"].cfg.mode = "file"]_certVars

Due == /\ active.mode \in {"auto", "dns", "http"} /\ ~Invalid(active)
       /\ active.paths = "plain"
       /\ ~Ready(active, certFile)

(* renewCertTask replaces a certificate that is missing or about to        *)
(* expire, as long as the process lives, the paths have no parameters and  *)
(* the account file was not cut off in User.Save, which nothing repairs.   *)
(* (MaxIds ends the instance.)                                             *)
DueIsReplaced ==
    renewal /\ Due ~> ~renewal \/ ~Due \/ issued = MaxIds \/ account = "torn"

===========================================================================
