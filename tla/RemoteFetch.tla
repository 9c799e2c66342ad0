----------------------------- MODULE RemoteFetch -----------------------------
(***************************************************************************)
(* fetchRemoteBytes (src/services/remote-fetch.service.ts): one fetch of a *)
(* remote URL against a remote that may redirect, lie about its length,    *)
(* stall or fail, with the timer of fetchWithTimeout and the size limit of *)
(* readStreamWithLimit.                                                    *)
(***************************************************************************)
EXTENDS Naturals

CONSTANTS
  Urls,           \* URLs that parse
  AllowedUrls,    \* those assertRemoteUrlAllowed lets through
  HostOf,         \* "address" where the host is an IP address, "http" and
                  \* "https" where it is a name reached that way
  MaxRedirects,   \* MAX_REDIRECTS
  MaxBytes,       \* options.maxBytes
  Timeout,        \* options.timeoutMs, in ticks
  MaxChunk,       \* bound on the bytes of one chunk
  MaxWait,        \* bound on the ticks modelled for one hop
  Missing         \* no Location header, no Content-Length header

\* How a fetch ends: with the bytes, with a RemoteFetchError of status 400, 413,
\* 502 or 504, or with another error.
Outcomes == {"ok", "refused", "tooLarge", "badGateway", "timedOut", "raised"}

ASSUME FetchAssumption ==
  /\ AllowedUrls \subseteq Urls
  /\ HostOf \in [Urls -> {"address", "http", "https"}]
  /\ MaxRedirects \in Nat /\ MaxBytes \in Nat /\ Timeout \in Nat
  /\ MaxChunk \in Nat /\ MaxWait \in Nat
  /\ Missing \notin Urls \cup Nat \cup Outcomes

VARIABLES
  phase,      \* "start", "dns", "headers", "status", "body", "done"
  url,        \* currentUrl
  address,    \* how its host resolved when it was checked
  reached,    \* where the request was connected to
  hop,        \* the loop counter
  requests,   \* requests sent so far
  waited,     \* ticks since the last request was sent
  response,   \* status class and the headers that are read
  buffered,   \* bytes in chunks
  sent,       \* bytes of body the remote has sent
  result      \* its outcome, once it is over

fetchVars ==
  <<phase, url, address, reached, hop, requests, waited, response, buffered, sent, result>>

Redirect(location) == [kind |-> "redirect", location |-> location, length |-> Missing]
Ok(length) == [kind |-> "ok", location |-> Missing, length |-> length]
Failure == [kind |-> "error", location |-> Missing, length |-> Missing]
NoResponse == [kind |-> "none", location |-> Missing, length |-> Missing]

\* "invalid" is a Location that does not parse as a URL.
Responses ==
  {Redirect(location) : location \in Urls \cup {Missing, "invalid"}}
  \cup {Ok(length) : length \in 0..(MaxBytes + 1) \cup {Missing}}
  \cup {Failure}

\* What resolveAndValidateIp makes of a host.
Addresses == {"public", "private", "unresolved"}

FetchInit ==
  /\ phase = "start" /\ url = Missing /\ address = "unknown" /\ reached = "unknown"
  /\ hop = 0 /\ requests = 0 /\ waited = 0
  /\ response = NoResponse /\ buffered = 0 /\ sent = 0
  /\ result = Missing

Done(outcome) == phase' = "done" /\ result' = outcome

\* The URL the caller passes, parsed and checked before the first request.
Start(u) ==
  /\ phase = "start"
  /\ \/ u \in AllowedUrls /\ url' = u /\ phase' = "dns" /\ UNCHANGED result
     \/ u \notin AllowedUrls /\ Done("refused") /\ UNCHANGED url
  /\ UNCHANGED <<address, reached, hop, requests, waited, response, buffered, sent>>

\* resolveAndValidateIp: only a private address stops the request, a host that
\* does not resolve does not.  Of a host that is an address there is nothing to ask.
Resolve(how) ==
  /\ phase = "dns"
  /\ HostOf[url] = "address" => how = "public"
  /\ address' = how
  /\ reached' = "unknown"
  /\ IF how = "private"
     THEN Done("refused") /\ UNCHANGED <<requests, waited>>
     ELSE /\ phase' = "headers"
          /\ requests' = requests + 1
          /\ waited' = 0
          /\ UNCHANGED result
  /\ UNCHANGED <<url, hop, response, buffered, sent>>

\* The request has its host replaced by the address that was checked: not for https,
\* whose certificate needs the name, nor where no address was found.
Pinned == HostOf[url] = "address" \/ (HostOf[url] = "http" /\ address = "public")

\* fetch opens its connection: if it still has a name, it resolves that again.
Connect(to) ==
  /\ phase = "headers"
  /\ reached = "unknown"
  /\ Pinned => to = "public"
  /\ reached' = to
  /\ UNCHANGED <<phase, url, address, hop, requests, waited, response, buffered, sent,
                 result>>

\* The headers arrive in time: fetchWithTimeout returns and clears its timer.
Headers(r) ==
  /\ phase = "headers"
  /\ reached # "unknown"
  /\ response' = r
  /\ phase' = "status"
  /\ UNCHANGED <<url, address, reached, hop, requests, waited, buffered, sent, result>>

\* Fault variant of Abort: the timer is never set.
NoAbort == FALSE /\ UNCHANGED fetchVars

Abort ==
  /\ phase = "headers"
  /\ waited >= Timeout
  /\ Done("timedOut")
  /\ UNCHANGED <<url, address, reached, hop, requests, waited, response, buffered, sent>>

NetworkError ==
  /\ phase = "headers"
  /\ Done("badGateway")
  /\ UNCHANGED <<url, address, reached, hop, requests, waited, response, buffered, sent>>

RedirectLimit == hop = MaxRedirects

\* Fault variant of FollowAllowed: only the first URL is checked.
FollowAny(u) == u \in Urls

FollowAllowed(u) == u \in AllowedUrls

Follow ==
  /\ phase = "status"
  /\ response.kind = "redirect"
  /\ IF response.location \in {Missing, "invalid"} \/ RedirectLimit
     THEN Done("badGateway") /\ UNCHANGED <<url, hop>>
     ELSE IF ~FollowAllowed(response.location)
     THEN Done("refused") /\ UNCHANGED <<url, hop>>
     ELSE /\ url' = response.location
          /\ hop' = hop + 1
          /\ phase' = "dns"
          /\ UNCHANGED result
  /\ UNCHANGED <<address, reached, requests, waited, response, buffered, sent>>

Accept ==
  /\ phase = "status"
  /\ response.kind # "redirect"
  /\ IF response.kind = "error" THEN Done("badGateway")
     ELSE IF response.length # Missing /\ response.length > MaxBytes THEN Done("tooLarge")
     ELSE phase' = "body" /\ UNCHANGED result
  /\ UNCHANGED <<url, address, reached, hop, requests, waited, response, buffered, sent>>

\* Fault variant of TooLarge: the limit checked before the chunk is counted.
TooLargeLate(total) == buffered > MaxBytes

TooLarge(total) == total > MaxBytes

\* One chunk of the body, whatever Content-Length promised.
Chunk(n) ==
  /\ phase = "body"
  /\ sent' = sent + n
  /\ IF TooLarge(buffered + n)
     THEN Done("tooLarge") /\ UNCHANGED buffered
     ELSE buffered' = buffered + n /\ UNCHANGED <<phase, result>>
  /\ UNCHANGED <<url, address, reached, hop, requests, waited, response>>

EndOfBody ==
  /\ phase = "body"
  /\ Done("ok")
  /\ UNCHANGED <<url, address, reached, hop, requests, waited, response, buffered, sent>>

\* The connection breaks while the body is read: the error is passed on as it
\* is, not as a RemoteFetchError.
BodyError ==
  /\ phase = "body"
  /\ Done("raised")
  /\ UNCHANGED <<url, address, reached, hop, requests, waited, response, buffered, sent>>

\* Time passes for a request that is out.  The timer, while it is set, fires
\* on its tick.
Tick ==
  /\ \/ phase = "headers" /\ waited < Timeout
     \/ phase = "body"
  /\ waited < MaxWait
  /\ waited' = waited + 1
  /\ UNCHANGED <<phase, url, address, reached, hop, requests, response, buffered,
                 sent, result>>

Remote ==
  \/ \E to \in {"public", "private"} : Connect(to)
  \/ \E r \in Responses : Headers(r)
  \/ NetworkError
  \/ \E n \in 1..MaxChunk : Chunk(n)
  \/ EndOfBody
  \/ BodyError

\* What goes on without the remote: timers, the resolver, the code between two
\* awaits.
Own ==
  \/ \E u \in Urls : Start(u)
  \/ \E how \in Addresses : Resolve(how)
  \/ Abort \/ Follow \/ Accept
  \/ Tick

FetchNext == Own \/ Remote

FetchSpec == FetchInit /\ [][FetchNext]_fetchVars

(***************************************************************************)
(* Properties                                                              *)
(***************************************************************************)
\* The fetch is in one of its phases, with the hop, bytes and time it may have
\* there.
FetchTypeOK ==
  /\ phase \in {"start", "dns", "headers", "status", "body", "done"}
  /\ url \in Urls \cup {Missing}
  /\ address \in Addresses \cup {"unknown"}
  /\ reached \in {"unknown", "public", "private"}
  /\ hop \in 0..MaxRedirects
  /\ requests \in Nat /\ waited \in 0..MaxWait
  /\ response \in Responses \cup {NoResponse}
  /\ buffered \in Nat /\ sent \in Nat
  /\ result \in Outcomes \cup {Missing}

\* Every request that leaves, also the one behind the last redirect, goes to a
\* URL the policy allows, of a host that had not resolved to a private address when
\* it was checked; it ends in the private network only where the name is resolved
\* again after the check; and a chain of redirects, or a loop of them, costs at most
\* MAX_REDIRECTS + 1.
SentOnlyAllowed ==
  /\ phase \in {"headers", "status", "body"} =>
       /\ url \in AllowedUrls /\ address # "private"
       /\ reached = "private" => HostOf[url] = "https" \/ address = "unresolved"
  /\ requests <= MaxRedirects + 1

\* Memory stays within the limit whatever Content-Length said; a body that is
\* returned is all of what the remote sent; and a fetch is refused as too large
\* only if the remote announced or sent more than the limit.
LimitIsExact ==
  /\ buffered <= MaxBytes
  /\ result = "ok" => buffered = sent
  /\ result = "tooLarge" =>
       sent > MaxBytes \/ (response.length # Missing /\ response.length > MaxBytes)

\* docs/c2pa-support-matrix.md: private-network targets are blocked by default, and
\* remote fetches are bounded by timeout.  If either is so, no host of the private
\* network ever holds a fetch for longer than its timeout.
NeverHeldByPrivateHost ==
  (phase \in {"headers", "body"} /\ reached = "private") => waited <= Timeout
=============================================================================
