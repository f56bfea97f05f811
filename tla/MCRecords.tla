----------------------------- MODULE MCRecords -----------------------------
(* Instances of Records for TLC. *)
EXTENDS Records, TLC

\* Flows: with and without a location, from a device with and without a known
\* interface, with columns of either kind, of two clouds, of an application
\* protocol, and of the protocols that have event types of their own.
MCFlow(geo, device, iface, cols, sub, app, result, internal) ==
  [geo |-> geo, device |-> device, iface |-> iface, cols |-> cols, sub |-> sub, app |-> app, result |-> result,
   internal |-> internal]
MCFlowSet ==
  {MCFlow(TRUE, TRUE, TRUE, {2, 4, 6}, "aws_subnet", 0, 0, FALSE),
   MCFlow(FALSE, TRUE, FALSE, {1, 3}, "aws_subnet", 0, 0, TRUE),
   MCFlow(FALSE, TRUE, TRUE, {1, 2, 4}, "gcp_subnet", 0, 0, FALSE),
   MCFlow(TRUE, FALSE, TRUE, {1, 2, 5}, "aws_subnet", 1, 0, FALSE),
   MCFlow(FALSE, TRUE, FALSE, {}, "none", 12, 0, FALSE),
   MCFlow(FALSE, FALSE, FALSE, {2, 3}, "none", 10, 4, FALSE)}
MCColName == 1 :> "STR00" @@ 2 :> "kt_aws_src_acc_id" @@ 3 :> "kt_az_src_sub_id" @@ 6 :> "kt_aws_src_region"
MCDeviceCols == 4 :> "source_region"
MCSubtypes == [s \in {"aws_subnet", "gcp_subnet"} |-> "STR00" :> "flow_status"]
MCUdrs == 1 :> ("STR00" :> "http_url")
MCRemapTo ==
  "kt_aws_src_acc_id" :> "source_account" @@ "kt_az_src_sub_id" :> "source_account" @@ "source_region" :> "source_region"
  @@ "kt_aws_src_region" :> "source_region"
MCForeign == "aws_subnet" :> {"kt_az_src_sub_id"} @@ "gcp_subnet" :> {"kt_aws_src_acc_id", "kt_az_src_sub_id"}

MCFilter(keys, re, force) == [keys |-> keys, re |-> re, force |-> force, negate |-> FALSE]
MCNegate == [keys |-> <<"DOES_NOT_MATCH">>, re |-> {}, force |-> FALSE, negate |-> TRUE]
MCMetadata(more, site, alias, admin, match) ==
  [dev |-> "SysName" :> "core" @@ [k \in more |-> "x"] @@ (IF site = "" THEN NoAttrs ELSE "site" :> site),
   ifs |-> 1 :> ("Alias" :> alias @@ "AdminStatus" :> admin @@ "Speed" :> "10"),
   tables |-> "7" :> ("tag" :> "row") @@ "7.1" :> ("cpu_name" :> "a"),
   xtra |-> "site" :> [table |-> DeviceTagTable, tables |-> {}] @@ "tag" :> [table |-> "cpu", tables |-> {"cpu"}],
   match |-> match]
MCMetadataSet ==
  {MCMetadata({}, "x", "wan", "up", {}),
   MCMetadata({}, "", "wan", "up", {MCFilter(<<"site">>, {"x"}, TRUE), MCFilter(<<"if_Alias">>, {"wan"}, FALSE)}),
   MCMetadata({}, "x", "lan", "down", {MCFilter(<<"if_AdminStatus">>, {"up"}, FALSE), MCFilter(<<"site">>, {"x"}, FALSE)}),
   MCMetadata({}, "x", "wan", "up", {MCNegate, MCFilter(<<"if_Alias">>, {"lan"}, FALSE), MCFilter(<<"site">>, {"y"}, FALSE)}),
   MCMetadata({"row"}, "y", "wan", "up", {MCFilter(<<"if_Alias", "tag">>, {"lan"}, TRUE), MCFilter(<<"if_Speed">>, {"1"}, FALSE)})}
MCMetric(name, table, mib, counter) == [name |-> name, table |-> table, mib |-> mib, val |-> TRUE, counter |-> counter]
MCOwn == "src_addr" :> "1.1.1.1" @@ "device_name" :> "d" @@ "ks_cpu_load" :> "high" @@ "timestamp" :> "1" @@ "Uptime" :> "9"
MCInputs ==
  {[kind |-> "metadata", md |-> md] : md \in MCMetadataSet}
  \cup {[kind |-> "dev", own |-> MCOwn, idx |-> "7.1", parent |-> "7", inp |-> 0, out |-> 0, uptime |-> 1, octets |-> 1,
         metrics |-> {MCMetric("cpu_load", "cpu", TRUE, FALSE), MCMetric("Uptime", "", FALSE, FALSE)}],
        [kind |-> "int", own |-> MCOwn, idx |-> "", parent |-> "", inp |-> 1, out |-> 1, uptime |-> 1, octets |-> 0,
         metrics |-> {MCMetric("ifHCInOctets", "if", TRUE, FALSE), MCMetric("ifIn_counter", "if", TRUE, TRUE)}],
        [kind |-> "int", own |-> MCOwn, idx |-> "", parent |-> "", inp |-> 1, out |-> 2, uptime |-> 0, octets |-> 1,
         metrics |-> {MCMetric("", "if", TRUE, FALSE)}]}
  \cup {[kind |-> "synth", rt |-> rt, sent |-> rt = 2] : rt \in {0, 1, 2, 7, 11}}
  \cup {[kind |-> "flow", bytes |-> b, rate |-> 2] : b \in {0, 1, 5}}
  \cup {[kind |-> "ktrans", fields |-> [f \in {"count", "value", "one-minute", "95-percentile"} |-> 0], type |-> "meter",
         force |-> TRUE], [kind |-> "syngest", value |-> 0],
        [kind |-> "trap"], [kind |-> "other"]}
  \cup {[kind |-> "rollup", metric |-> m, typed |-> TRUE, dims |-> <<"src_geo", d, "l4_dst_port">>, pts |-> <<"US", pt, "40000">>] :
         m \in {0, 1}, d \in {"dst_geo", "dest_account"}, pt \in {"DE", "--"}}
MCNrmNames == "src_geo" :> "country" @@ "dst_geo" :> "country" @@ "dest_account" :> "vpc_account" @@ "l4_dst_port" :> "port"
MCOtelNames == "src_geo" :> "src_country" @@ "dst_geo" :> "dst_country" @@ "l4_dst_port" :> "dst_port"
MCStripTo == "ks_cpu_load" :> "cpu_load"
MCTableKeys == "cpu" :> {"cpu_load", "cpu_name"} @@ "if" :> {"if_Alias", "if_AdminStatus", "if_Speed", "ifHCInOctets"}
MCInterfaceKeys == {p \o k : p \in {"if_", "input_if_", "output_if_"}, k \in {"Alias", "AdminStatus", "Speed"}}
MCKeyOrder ==
  <<"Index", "SysName", "Uptime", "cpu_load", "cpu_name", "device_name", "if_AdminStatus", "if_Alias", "if_Speed",
    "input_if_AdminStatus", "input_if_Alias", "input_if_Speed", "instrumentation.name", "ks_cpu_load", "mib-name",
    "mib-table", "objectIdentifier", "output_if_AdminStatus", "output_if_Alias", "output_if_Speed", "row", "site",
    "src_addr", "tag">>
MCKeyRank == [k \in {MCKeyOrder[i] : i \in DOMAIN MCKeyOrder} |-> CHOOSE i \in DOMAIN MCKeyOrder : MCKeyOrder[i] = k]
=============================================================================
