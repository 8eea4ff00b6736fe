------------------------------- MODULE Gateway -------------------------------
(***************************************************************************)
(* internal/krakend/parser.go: the conversion of ApiEndpoints resources    *)
(* into the endpoint list of the KrakenD gateway ("endpoints.tmpl" of the  *)
(* partials ConfigMap), and the resource types of api/v1 it reads.         *)
(*                                                                         *)
(* Data is abstracted to what the properties tell apart:                   *)
(*   KrakendSpec       authProviders, a sequence of [name, issuer]         *)
(*                     (issuer stands for alg, jwkUrl and issuer)          *)
(*   ApiEndpointsSpec  krakend, auth = [name, claims] (claims stands for   *)
(*                     cache, debug, audience and scope), rateLimit,       *)
(*                     endpoints and openEndpoints, sequences of           *)
(*                     [path, backendHost]                                 *)
(* The order of the generated list is abstracted: r.List reads an informer *)
(* cache whose order is arbitrary, so the list is a set of routes.  `src'  *)
(* is auxiliary: it records the ApiEndpoints object a route comes from.    *)
(***************************************************************************)
EXTENDS Naturals, Sequences, FiniteSets

CONSTANT None     \* nil / the empty string / "not found"

(* The first provider with the name the ApiEndpoints asks for, or None.    *)
findAuthProvider(k, auth) ==
  LET hits == {i \in DOMAIN k.authProviders : k.authProviders[i].name = auth.name}
  IN  IF hits = {} THEN None
      ELSE [issuer |-> k.authProviders[CHOOSE i \in hits : \A j \in hits : i <= j].issuer,
            claims |-> auth.claims]

(* One gateway endpoint: path and backend are copied, as is the rate limit *)
(* (nil stays nil); the auth validator is None for an open endpoint.       *)
parseEndpoint(src, e, validator, rateLimit) ==
  [src |-> src, endpoint |-> e.path, host |-> e.backendHost,
   auth |-> validator, qos |-> rateLimit]

(* All endpoints of one spec.  Only meaningful if the auth provider exists. *)
parseKrakendEndpointsSpec(k, src, spec) ==
  LET auth == findAuthProvider(k, spec.auth)
  IN       {parseEndpoint(src, spec.endpoints[i], auth, spec.rateLimit) :
              i \in DOMAIN spec.endpoints}
      \cup {parseEndpoint(src, spec.openEndpoints[i], None, spec.rateLimit) :
              i \in DOMAIN spec.openEndpoints}

(* Mutant: the error of findAuthProvider is not looked at.                 *)
NoError(k, items) == TRUE

(* The conversion returns an error as soon as one item of the list names a *)
(* provider the Krakend does not have, also when that item has only open   *)
(* endpoints.  `items' maps object names to specs.                         *)
Convertible(k, items) ==
  \A n \in DOMAIN items : findAuthProvider(k, items[n].auth) # None

ToKrakendEndpoints(k, items) ==
  UNION {parseKrakendEndpointsSpec(k, n, items[n]) : n \in DOMAIN items}

(* The sample endpoint the helm chart renders into a new partials          *)
(* ConfigMap.                                                              *)
ChartRoute == [src |-> None, endpoint |-> None, host |-> None,
               auth |-> None, qos |-> None]
=============================================================================
