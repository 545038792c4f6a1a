-------------------------------- MODULE SRS ---------------------------------
(***************************************************************************)
(* Sender rewriting (internal/srs/srs.go and its call in deliverPayload):  *)
(* which senders are rewritten, how, and what Reverse makes of an address  *)
(* that comes back with a bounce.  Pure functions: the day is a parameter. *)
(*                                                                         *)
(* A text is the sequence of the parts strings.Split yields at the         *)
(* separator, so joining texts with the separator is concatenation.  A     *)
(* part is a tuple whose first element names its kind: <<"word", w>>, a    *)
(* tag, a two-digit timestamp or a hash.  The hash is taken to be          *)
(* injective (it is truncated to hashLength characters in the code); the   *)
(* case of letters and the optional subdomain (buildSRSDomain) of the SRS  *)
(* domain, which Reverse does not look at, are left out.                   *)
(***************************************************************************)
EXTENDS Integers, Sequences

CONSTANTS
  SRSDomains,    \* domains: a sequence of texts of one part
  MaxAge,        \* maxAge, in days
  Separated      \* bound: parts that the domains and local parts are made of

ASSUME SRSAssumption ==
  /\ MaxAge \in Nat \ {0}
  /\ Len(SRSDomains) \in Nat \ {0}
  /\ \A i \in 1..Len(SRSDomains) : SRSDomains[i] = <<SRSDomains[i][1]>>

SRS0 == <<"tag", "SRS0">>
SRS1 == <<"tag", "SRS1">>
Empty == <<"word", "">>

(* The result of a call that returns an error.                             *)
NoAddress == [local |-> << >>, domain |-> << >>]

generateHash(secret, text) == <<"hash", secret, text>>

(* Days since the epoch modulo 1024, as two base32 digits.                 *)
Cycle == 1024
generateTimestamp(day) == <<"time", (day % Cycle) \div 32, (day % Cycle) % 32>>

\* Mutant of validateTimestamp: the age is not corrected for the wraparound.
validateTimestampNoWrap(t, day) ==
  t[1] = "time" /\ (day % Cycle) - (t[2] * 32 + t[3]) <= MaxAge

validateTimestamp(t, day) ==
  /\ t[1] = "time"
  /\ LET issued == t[2] * 32 + t[3]
         current == day % Cycle
         age == IF current >= issued THEN current - issued
                                     ELSE (Cycle - issued) + current
     IN age <= MaxAge

HasTag(tag, local) == Len(local) > 1 /\ local[1] = tag

(* Round robin over the counter, or a hash of the sender: any index.       *)
selectDomain(counter) == SRSDomains[1 + (counter % Len(SRSDomains))]

forwardSRS0(secret, sender, day, counter) ==
  LET t == generateTimestamp(day)
      signed == <<t>> \o sender.domain \o sender.local
  IN [local |-> <<SRS0, generateHash(secret, signed)>> \o signed,
      domain |-> selectDomain(counter)]

forwardSRS1(secret, sender) ==
  LET wrapped == sender.domain \o sender.local
  IN [local |-> <<SRS1, generateHash(secret, Append(wrapped, Empty))>> \o wrapped,
      domain |-> SRSDomains[1]]

(* The null sender has no address and cannot be rewritten.                 *)
Forward(secret, sender, day, counter) ==
  CASE sender = NoAddress -> NoAddress
    [] sender # NoAddress /\ HasTag(SRS0, sender.local) -> forwardSRS1(secret, sender)
    [] sender # NoAddress /\ HasTag(SRS1, sender.local) -> sender
    [] OTHER -> forwardSRS0(secret, sender, day, counter)

Rest(text, n) == SubSeq(text, n, Len(text))

(* strings.SplitN in five parts: the local part is whatever is left.       *)
reverseSRS0(secret, local, day) ==
  IF /\ Len(local) >= 5
     /\ validateTimestamp(local[3], day)
     /\ local[2] = generateHash(secret, Rest(local, 3))
    THEN [local |-> Rest(local, 5), domain |-> <<local[4]>>]
    ELSE NoAddress

(* strings.SplitN in four parts: inner is the result for the address       *)
(* inside the layer that forwardSRS1 put around it.                        *)
reverseSRS1(secret, local, inner) ==
  IF /\ Len(local) >= 4
     /\ local[2] = generateHash(secret, Append(Rest(local, 3), Empty))
    THEN inner
    ELSE NoAddress

ReverseLocal(secret, local, day, inner) ==
  CASE HasTag(SRS0, local) -> reverseSRS0(secret, local, day)
    [] HasTag(SRS1, local) -> reverseSRS1(secret, local, inner)
    [] OTHER -> NoAddress

(* back[p] is the result for the local part that begins at part p; the     *)
(* address inside an SRS1 layer begins at its fourth part.                 *)
Reverse(secret, address, day) ==
  LET back[p \in 1..(Len(address.local) + 1)] ==
        ReverseLocal(secret, Rest(address.local, p), day, back[p + 3])
  IN back[1]

(***************************************************************************)
(* The choice deliverPayload makes.                                        *)
(***************************************************************************)
(* skip: the settings; dkim: what the caller reported of the inbound       *)
(* message.                                                                *)
ShouldSkip(skip, from, to, dkim) ==
  \/ to.domain \in skip.domains
  \/ skip.ifDKIMPass /\ dkim = "pass"
  \/ skip.ifSameDomain /\ from # NoAddress /\ from.domain = to.domain

MailFrom(secret, skip, autoReply, from, to, dkim, day, counter) ==
  IF autoReply \/ ShouldSkip(skip, from, to, dkim)
    THEN from
    ELSE LET rewritten == Forward(secret, from, day, counter)
         IN IF rewritten = NoAddress THEN from ELSE rewritten

(***************************************************************************)
(* The way back.                                                           *)
(***************************************************************************)
Words == {<<"word", w>> : w \in Separated}

(* Senders: local parts may contain the separator, domains may not.        *)
Senders == [local : {<<w>> : w \in Words} \cup (Words \X Words)
                    \cup {<<SRS0>>, <<SRS1>>},
            domain : {<<w>> : w \in Words}]

Settings == [domains : {{}, {d.domain : d \in Senders}},
             ifDKIMPass : BOOLEAN, ifSameDomain : BOOLEAN]

(* Days around the wraparound of the timestamp, and how long a bounce      *)
(* takes.                                                                  *)
IssueDays == {0, 32, 1003, 1023, 1024, 20484}
Delays == {0, MaxAge, MaxAge + 1, 1000, Cycle - 1}

(* The senders with which a message of s may leave.                        *)
Mail(s, i, c) ==
  {MailFrom("ours", skip, auto, s, to, dkim, i, c) :
     skip \in Settings, auto \in BOOLEAN,
     to \in {t \in Senders : Len(t.local) = 1}, dkim \in {"pass", "none"}}

(* A bounce finds its way back: the sender of a message leaves unchanged,  *)
(* or as an address that is reversed to it if the bounce comes within      *)
(* maxAge days, also when the timestamp wraps around in between, and to    *)
(* nothing for the rest of the 1024 days.  The same holds when one or two  *)
(* more forwarders that share the secret rewrite the address on later      *)
(* days: the age counts from the first.  A forwarder with another secret   *)
(* gets nothing, never another address.  Nothing is said of an address     *)
(* another forwarder rewrote before us: Reverse needs both of its secrets. *)
FindsBack(s, i, d, c) ==
  /\ Mail(s, i, c) \ {s} # {}
  /\ \A once \in Mail(s, i, c) \ {s} :
       LET twice == Forward("ours", once, i + 1, c)
           thrice == Forward("ours", twice, i + 2, c)
       IN \A a \in {once, twice, thrice} :
            /\ Reverse("ours", a, i + d) = IF d <= MaxAge THEN s ELSE NoAddress
            /\ Reverse("theirs", a, i + d) = NoAddress

(* The days and delays for which a bounce of some message goes astray.     *)
Astray ==
  {x \in [day : IssueDays, delay : Delays] :
     \E s \in Senders, c \in 0..1 : ~FindsBack(s, x.day, x.delay, c)}
=============================================================================
