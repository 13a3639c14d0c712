----------------------------- MODULE MCScaling -----------------------------
(* Instances of Scaling for TLC.                                           *)
EXTENDS Scaling

MCDefaultHPA == [min |-> 1, max |-> 2]

\* Every deployment has one container of interest, with a readiness probe only.
MCTemplates ==
    [d \in Deployments |->
        [selector |-> {"app"}, labels |-> ("app" :> d) @@ ("version" :> "1"),
         placement |-> Empty, hostNetwork |-> {FALSE}, dnsPolicy |-> "ClusterFirst",
         containers |-> ("main" :>
            [resources |-> ("cpu" :> 1), env |-> ("METRICS" :> "on"), liveness |-> Empty,
             readiness |-> ("handler" :> "get") @@ ("period" :> 10)])]]

override(n, r) ==
    [name |-> n, replicas |-> r, labels |-> Empty, placement |-> Empty, resources |-> Empty,
     env |-> Empty, readiness |-> Empty, liveness |-> Empty, hostNetwork |-> {}]

entry(c, v) == [container |-> c, values |-> v]

\* The pod template overridden in every way.
Templated(o) ==
    [o EXCEPT !.labels = ("version" :> "2") @@ ("team" :> "a"), !.placement = ("nodeSelector" :> "ssd"),
              !.resources = <<entry("main", "memory" :> 2)>>, !.env = <<entry("main", "METRICS" :> "off")>>,
              !.readiness = <<entry("sidecar", Empty), entry("main", "period" :> 5), entry("main", "period" :> 6)>>,
              !.hostNetwork = {TRUE}]
\* The probe disabled, and the label and the network given back.
Disabled(o) ==
    [o EXCEPT !.labels = ("version" :> "3"), !.readiness = <<entry("main", Empty)>>, !.hostNetwork = {FALSE}]
\* A probe without a handler.
Handlerless(o) == [o EXCEPT !.liveness = <<entry("main", "period" :> 5)>>]
\* A label of the selector changed.
Relabelled(o) == [o EXCEPT !.labels = ("app" :> "other")]

\* No override; one of each sort of deployment; one without replicas; two of
\* the same deployment; and those that no HPA can follow or the API server
\* rejects.
MCOverrides ==
    << <<>>,
      <<Templated(override("imc-controller", 2)), override("mt-broker-filter", None),
        Disabled(override("imc-controller", None))>>,
      <<override("mt-broker-filter", 2), Templated(override("mt-broker-filter", 3))>>,
      <<Disabled(override("mt-broker-ingress", 2)), override("imc-controller", 0)>>,
      <<override("mt-broker-filter", 0)>>,
      <<Handlerless(override("imc-controller", None)), Relabelled(override("mt-broker-filter", 2))>> >>
=============================================================================
