------------------------------- MODULE ImageFetch -------------------------------
(* The download of one picture: fetchImageSafely and downloadAndStore of          *)
(* storage/image-storage.service.ts, with assertSafeImageUrl of                   *)
(* common/utils/safe-image-url.util.ts. A URL is what the check tells apart.      *)
EXTENDS Integers, FiniteSets

CONSTANTS MaxRedirects, MaxBytes, Sizes

ImageAssumption ==
    /\ MaxRedirects \in Nat /\ MaxBytes \in Nat /\ Sizes \subseteq Nat

(* What a URL is: no URL, its protocol, credentials, and where its name leads;    *)
(* "mixed" is a name with a public address and a private one.                     *)
Hosts == {"public", "local name", "private", "mixed", "unresolved", "not listed"}
Urls  == [protocol : {"https", "http", "other"}, credentials : BOOLEAN, host : Hosts]

CONSTANTS AllowHttp, Reached        \* the URLs a server may redirect to

(* assertSafeImageUrl. *)
Safe(url) ==
    /\ url.protocol \in {"https"} \cup (IF AllowHttp THEN {"http"} ELSE {})
    /\ ~url.credentials
    /\ url.host = "public"

VARIABLES pc,       \* "check", "fetch", "read", "decode", "stored" or "failed"
          url,      \* the URL it is at
          hops,     \* redirects followed
          asked,    \* URLs requested (history variable)
          size      \* bytes of the picture held

vars == <<pc, url, hops, asked, size>>

Init == /\ pc = "check" /\ url \in Reached
        /\ hops = 0 /\ asked = {} /\ size = 0

Fail == pc' = "failed"

(* A slip of Accepted: only the first URL is checked. *)
FirstOnly == hops > 0 \/ Safe(url)

Accepted == Safe(url)

Check ==
    /\ pc = "check"
    /\ IF Accepted THEN pc' = "fetch" ELSE Fail
    /\ UNCHANGED <<url, hops, asked, size>>

(* A slip of MoreHops: the last redirect is followed, too. *)
OneMore == hops <= MaxRedirects

MoreHops == hops < MaxRedirects

Following(n) == n + 1

(* A redirect is followed to the next check; without a Location, or after the last  *)
(* one, it is an error.                                                           *)
Redirected(next) ==
    /\ pc = "fetch"
    /\ asked' = asked \cup {<<hops, url>>}
    /\ IF MoreHops THEN pc' = "check" /\ url' = next /\ hops' = Following(hops)
                   ELSE Fail /\ UNCHANGED <<url, hops>>
    /\ UNCHANGED size

(* An answer: its type is looked at, then the length it declares, if any. *)
Answered(allowed, declared) ==
    /\ pc = "fetch"
    /\ asked' = asked \cup {<<hops, url>>}
    /\ IF allowed /\ declared <= MaxBytes THEN pc' = "read" ELSE Fail
    /\ UNCHANGED <<url, hops, size>>

(* A slip of Fits: the declared length is believed. *)
Believed(n) == TRUE

Fits(n) == n <= MaxBytes

(* readBodyLimited: a chunk comes; the body is dropped when it gets too long. *)
Chunk(n) ==
    /\ pc = "read"
    /\ IF Fits(size + n) THEN size' = size + n /\ UNCHANGED pc ELSE Fail /\ size' = 0
    /\ UNCHANGED <<url, hops, asked>>

EndOfBody == pc = "read" /\ pc' = "decode" /\ UNCHANGED <<url, hops, asked, size>>

(* assertDecodableImage, then writeFile. *)
Store == /\ pc = "decode"
         /\ pc' = "stored" \/ Fail
         /\ UNCHANGED <<url, hops, asked, size>>

(* A time limit, a network error or another status. *)
GiveUp == pc \in {"fetch", "read"} /\ Fail /\ UNCHANGED <<url, hops, asked, size>>

Next == \/ Check \/ EndOfBody \/ Store \/ GiveUp
        \/ \E next \in Reached : Redirected(next)
        \/ \E allowed \in BOOLEAN, declared \in Sizes \cup {0} : Answered(allowed, declared)
        \/ \E n \in Sizes \ {0} : Chunk(n)

(* A server answers, sends or ends its body, or AbortSignal.timeout gives up on it. *)
Fairness == WF_vars(Next)

-----------------------------------------------------------------------------
(* Whatever servers redirect to and declare: every URL requested was one that the  *)
(* check accepts, no more than MaxRedirects redirects are followed, and no more    *)
(* than MaxBytes are held.                                                        *)
Bounded ==
    /\ \A a \in asked : Safe(a[2])
    /\ Cardinality(asked) <= MaxRedirects + 1
    /\ size <= MaxBytes

(* Every download ends, for servers that redirect in a circle or never stop sending. *)
DownloadEnds == <>(pc \in {"stored", "failed"})

=============================================================================
