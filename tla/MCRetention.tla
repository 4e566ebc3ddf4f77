---------------------------- MODULE MCRetention ----------------------------
(* Three events of two sites, on days of two ticks.                        *)
EXTENDS Retention

CONSTANTS e1, e2, e3

Columns == [site |-> "s", type |-> "pageview", visitor |-> "v", path |-> "/", referrer |-> None,
            country |-> None, device |-> "mobile", utm_source |-> None, utm_medium |-> None,
            utm_campaign |-> None, name |-> None, props |-> [color |-> None], dur |-> 0, view |-> "w"]

\* Two pageviews of a visitor by way of a search engine, and another site's custom event.
MCPayload == [e \in {e1, e2, e3} |->
    CASE e = e1 -> [Columns EXCEPT !.referrer = <<"google", "com">>, !.utm_medium = Blank]
      [] e = e2 -> [Columns EXCEPT !.referrer = <<"www", "google", "de">>, !.path = "/about"]
      [] e = e3 -> [Columns EXCEPT !.site = "t", !.type = "event", !.name = "buy", !.props.color = "red"]]

MCSkews == {-9, 9}

MCRequests ==
    {[site |-> "s", days |-> 0, bucket |-> "day", dim |-> "path", limit |-> 0, name |-> None, by |-> None, minutes |-> 1],
     [site |-> "t", days |-> 9, bucket |-> "hour", dim |-> "device", limit |-> 9, name |-> "buy", by |-> "color", minutes |-> 0]}
=============================================================================
