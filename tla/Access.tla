------------------------------- MODULE Access -------------------------------
(***************************************************************************)
(* Who may use the HTTP API (bridge/server.ts): the Host allowlist, the    *)
(* origin rule, the identity a reverse proxy vouches for, and the optional *)
(* authorisation of single devices.                                        *)
(*                                                                         *)
(* A request is [host, fwd, proxied, origin, native, login, device]: the   *)
(* Host header, X-Forwarded-Host, whether any forwarding header is set,    *)
(* the Origin as [scheme, host] (host None: unparsable) or None, the       *)
(* X-Herdr-Client, identity and device headers.  A configuration is        *)
(* [loopbackBind, publicHosts, origins, scheme, trustedUser, deviceHeader, *)
(* allow, ...].                                                            *)
(***************************************************************************)
CONSTANTS
  Loopback,   \* the forms of a loopback host
  None        \* an absent header or setting

Unknown == "unknown"   \* the device value that is never authorised

IsTrustedLoopbackHost(host, c) == c.loopbackBind /\ host \in Loopback

IsDirectLoopback(req, c) == IsTrustedLoopbackHost(req.host, c) /\ ~req.proxied

\* Forwarded host metadata counts only behind a hop that reached loopback.
EffectiveHost(req) ==
  IF req.host \in Loopback /\ req.proxied /\ req.fwd # None THEN req.fwd ELSE req.host

IsHostAllowed(host, c) ==
  /\ host # None /\ c.loopbackBind
  /\ \/ host \in Loopback
     \/ host \in c.publicHosts
     \/ \E o \in c.origins : o.host = host

ConfiguredCorsOrigin(req, c) == req.origin \in c.origins

OriginAllowed(req, c, level) ==
  IF req.origin = None
  THEN level = "write" => IsDirectLoopback(req, c) \/ req.native
  ELSE /\ req.origin.host # None
       /\ \/ req.origin = [scheme |-> IF IsDirectLoopback(req, c) THEN "http" ELSE c.scheme,
                           host   |-> EffectiveHost(req)]
          \/ req.origin \in c.origins

IdentityAllowed(req, c) ==
  /\ ~IsDirectLoopback(req, c) => c.trustedUser # None /\ req.login # None
  /\ req.login # None /\ c.trustedUser # None => req.login = c.trustedUser

CheckAccess(req, c, level) ==
  /\ EffectiveHost(req) \in Loopback => IsDirectLoopback(req, c)
  /\ IsHostAllowed(EffectiveHost(req), c)
  /\ OriginAllowed(req, c, level)
  /\ IdentityAllowed(req, c)

\* A device header is identity only together with the login the proxy vouches for.
DeviceAuth(req, c) ==
  LET device     == req.device
      direct     == IsDirectLoopback(req, c)
      vouchedFor == c.trustedUser # None /\ req.login = c.trustedUser
  IN  IF ~c.deviceHeader THEN [enforced |-> FALSE, device |-> None, authorized |-> TRUE]
      ELSE [enforced |-> TRUE, device |-> device,
            authorized |->
              /\ c.loopbackBind
              /\ IF device = None THEN direct
                 ELSE device # Unknown /\ device \in c.allow /\ (direct \/ vouchedFor)]

Guard(req, c, level) ==
  /\ CheckAccess(req, c, level)
  /\ level = "write" => DeviceAuth(req, c).authorized

CorsMethods == {"GET", "POST", "DELETE", "OPTIONS"}
CorsRequestHeaders == {"content-type", "if-none-match"}

\* corsPreflight: only a configured origin, and never a way around the gate.
CorsPreflight(req, c, method, headers) ==
  /\ ConfiguredCorsOrigin(req, c)
  /\ method \in CorsMethods /\ headers \subseteq CorsRequestHeaders
  /\ CheckAccess(req, c, IF method = "GET" THEN "read" ELSE "write")
=============================================================================
