---------------------------- MODULE MCCeleryLoad ----------------------------
(* CeleryLoad on scripts with every kind of argument, with names that are known, *)
(* unknown, repeated or those of links, and on texts that are no scripts.        *)
EXTENDS CeleryLoad

\* A text is written here with ' for the quotation mark.
Quoted(string) == [i \in 1..Len(string) |-> IF string[i] = Code["'"] THEN Quote ELSE string[i]]
Doc(string) == Quoted(Bytes(string))

Arguments == {
  "'x':1,'y':-2.5,'z':1e309", "'x':1,'x':2", "'x':'a/\\n\\u20ac'", "'label':'','x':true,'y':false", "'a':1,'b':'c'",
  "'x':null,'y':[1],'z':[]", "'else':{'kind':'nothing'},'_else':{'kind':'wait'}", "'else':1,'locals':'a'",
  "'then':{'kind':'home','args':{'axis':'x','speed':1}}", "'a':{'kind':'a','args':{'lhs':1}},'rhs':{'kind':'if','body':[]}",
  "'message':'100%'", "'X':1", "'':0", "'data_type':1"}

Bodies == {
  "", ",'body':[]", ",'body':null", ",'body':{'a':{'kind':'sync'}}", ",'body':[{'kind':'zero'},{'kind':'_if'},{'kind':'sync'}]",
  ",'body':[{'kind':'wait','args':{'milliseconds':10},'body':[{'kind':'read_pin'}]}]"}

Others == {
  "", "[", "1", "{}", "null", "{'kind':1}", "{'kind':null,'kind':'if'}", "{'KIND':'tool','kind':1}", "{'kind':'if','args':[]}",
  "{'kind':'if','args':[1]}", "{'kind':'if','body':[1]}", "{'kind':'if','args':{'else':{}}}", "{'kind':'install_first_party_farmware'} [",
  "{'kind':'if','Args':{'op':'<'},'args':{'op':'>'}}", "{'kind':'named_pin','comment':null,'args':'x'}"}

MCBuffers ==
  {Doc("{'kind':'if','args':{" \o args \o "}" \o body \o "}") : args \in Arguments, body \in Bodies}
  \cup {Doc(other) : other \in Others}
MCLater == {Doc("{'kind':'_if','args':{'label':'b','c':{'kind':'wait'},'lhs':'d'},'body':[{'kind':'sync'}]}")}

Loaded == {json \in {ParseWithOpts(buffer, FALSE, Enough).item : buffer \in MCBuffers \cup MCLater} : Readable(<<json>>, <<1>>)}
MCScripts == {json_to_celery_script([i \in 1..k |-> json], <<k>>) : json \in Loaded, k \in 1..MaxSlices}
MCNode == UNION {Nodes(celery) : celery \in MCScripts}
MCLeafValue ==
  {arg.value : arg \in UNION {UNION {ToSet(celery.args[n]) : n \in Nodes(celery)} : celery \in MCScripts}}
=============================================================================
