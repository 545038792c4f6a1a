------------------------------ MODULE Signing -------------------------------
(***************************************************************************)
(* How a message is signed: the parameters that the handler and then the   *)
(* deliverer choose among the request, the configuration and the DKIM key  *)
(* store (handler_new.go, delivery.go), and the ARC set that is put before *)
(* the message (internal/arc/arc.go).  A parameter is named after where it *)
(* comes from, Unset if it is empty; the signatures themselves, and the    *)
(* DNS validation that may leave a message unsigned, are left out.         *)
(***************************************************************************)
EXTENDS Integers, Sequences, FiniteSets, FiniteSetsExt

(* The empty string.                                                       *)
Unset == ""

Blank == [key |-> Unset, selector |-> Unset, domain |-> Unset]
Complete(p) == p.key # Unset /\ p.selector # Unset /\ p.domain # Unset
Or(a, b) == IF a = Unset THEN b ELSE a

From(origin) == {Unset, origin}
RequestType == [key : From("request"), selector : From("request"),
                domain : From("request")]
ConfigType == [enabled : BOOLEAN, key : From("config"),
               selector : From("config"), domain : From("config")]

\* Mutant of handlerDKIM: the config selector fills in for any key.
handlerDKIMLeaks(req, cfg) ==
  IF cfg.enabled
    THEN [key |-> Or(req.key, cfg.key), selector |-> Or(req.selector, cfg.selector),
          domain |-> Or(req.domain, cfg.domain)]
    ELSE Blank

(* The parameters the handler passes on.  The configured pair goes with    *)
(* the configured key only.                                                *)
handlerDKIM(req, cfg) ==
  CASE ~cfg.enabled -> Blank
    [] cfg.enabled /\ req.key = Unset /\ cfg.key # Unset ->
         [key |-> cfg.key, selector |-> Or(req.selector, cfg.selector),
          domain |-> Or(req.domain, cfg.domain)]
    [] OTHER -> req

handlerARC(req, cfg) ==
  IF cfg.enabled
    THEN [req EXCEPT !.selector = Or(req.selector, cfg.selector),
                     !.domain = Or(req.domain, cfg.domain)]
    ELSE Blank

(* What DeliverMessage signs with.  store: is there a key store, and has   *)
(* it a key for the domain it is asked for; header and sender: the domain  *)
(* of the From header and of the envelope.  An explicit key without a      *)
(* selector goes unsigned rather than being replaced; an explicit pair for *)
(* which no domain is known ends the delivery with an error.               *)
deliverDKIM(p, store, header, sender) ==
  CASE p.key # Unset /\ p.selector # Unset -> [p EXCEPT !.domain = Or(p.domain, sender)]
    [] p.key = Unset /\ store = "found" /\ Or(header, sender) # Unset ->
         [key |-> "store", selector |-> "store", domain |-> Or(header, sender)]
    [] OTHER -> p

deliverARC(p, cfg) ==
  [key |-> Or(p.key, IF cfg.enabled THEN cfg.key ELSE Unset),
   selector |-> Or(p.selector, cfg.selector),
   domain |-> Or(p.domain, cfg.domain)]

(***************************************************************************)
(* The ARC chain: the instance numbers of the ARC headers of a message,    *)
(* first header first.                                                     *)
(***************************************************************************)
determineInstance(headers) ==
  1 + Max({0} \cup {headers[i].instance : i \in 1..Len(headers)})

ChainStatus(instance) == IF instance > 1 THEN "pass" ELSE "none"

(* SignMessage puts the seal, the signature and the results before it.     *)
signARC(headers) ==
  LET i == determineInstance(headers)
      Header(name, cv) == [name |-> name, instance |-> i, cv |-> cv]
  IN << Header("seal", ChainStatus(i)), Header("signature", Unset),
        Header("results", Unset) >> \o headers

(* 3. of DeliverMessage: sign when all three parameters are there.         *)
DeliverARC(p, cfg, headers) ==
  IF Complete(deliverARC(p, cfg)) THEN signARC(headers) ELSE headers

(***************************************************************************)
(* Fitting signatures.                                                     *)
(***************************************************************************)
(* The key store exists only where DKIM is enabled.                        *)
StoresFor(cfg) == IF cfg.enabled THEN {"none", "missing", "found"} ELSE {"none"}

(* The request's own DKIM key is never used with a selector of the server, *)
(* a key of the store only with its selector and an aligned domain, and no *)
(* key where DKIM is disabled.  A request that leaves everything to the    *)
(* server is signed exactly if the server has a key and a selector for it. *)
(* A configured key may be used with a selector of the request.            *)
FitsDKIM(cfg, req, store, header, sender) ==
  LET used == deliverDKIM(handlerDKIM(req, cfg), store, header, sender)
  IN /\ Complete(used) =>
          /\ cfg.enabled
          /\ used.key = "request" => used.selector = "request"
          /\ used.key = "store" => used.selector = "store"
                                   /\ used.domain = Or(header, sender)
     /\ cfg.enabled /\ req = Blank /\ sender # Unset =>
          (Complete(used) <=> IF cfg.key = Unset THEN store = "found"
                                                 ELSE cfg.selector # Unset)

(* A message that passes this code again and again carries an unbroken ARC *)
(* chain with one set per signing hop, and none where ARC is disabled.     *)
(* Whose key, selector and domain it is signed with is left open.          *)
FitsARC(cfg, req) ==
  LET p == handlerARC(req, cfg)
      twice == DeliverARC(p, cfg, DeliverARC(p, cfg, << >>))
      seals == {i \in 1..Len(twice) : twice[i].name = "seal"}
  IN /\ ~cfg.enabled => twice = << >>
     /\ {twice[i].instance : i \in seals} = 1..Cardinality(seals)
     /\ \A i \in seals : (twice[i].cv = "none") <=> (twice[i].instance = 1)

(* Settings, requests and answers of the key store that do not fit.        *)
Misfits ==
  UNION {{m \in [cfg : {cfg}, req : RequestType, store : StoresFor(cfg)] :
            ~(/\ \A h \in From("header"), s \in From("sender") :
                    FitsDKIM(cfg, m.req, m.store, h, s)
              /\ FitsARC(cfg, m.req))} : cfg \in ConfigType}
=============================================================================
