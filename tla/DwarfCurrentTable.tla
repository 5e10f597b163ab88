-------------------------- MODULE DwarfCurrentTable --------------------------
(***************************************************************************)
(* The current schema of spec/dwarf_current.py, the input of               *)
(* spec/gen-factory-cpp.py: the attribute table (only its names matter),   *)
(* the artificial categories, and the tags in table order.                 *)
(***************************************************************************)
EXTENDS SchemaTables

\* DOMAIN attr_type_map.
DwarfCurrentAttrTypes == {
  "sibling", "location", "name", "ordering", "byte_size", "bit_offset",
  "data_bit_offset", "bit_size", "stmt_list", "low_pc", "high_pc",
  "language", "discr", "discr_value", "visibility", "import",
  "string_length", "common_reference", "comp_dir", "containing_type",
  "default_value", "inline", "lower_bound", "producer", "prototyped",
  "return_addr", "start_scope", "bit_stride", "upper_bound",
  "abstract_origin", "accessibility", "address_class", "artificial",
  "base_types", "calling_convention", "const_value", "count",
  "data_member_location", "decl_column", "decl_file", "decl_line",
  "declaration", "discr_list", "encoding", "external", "frame_base",
  "friend", "identifier_case", "is_optional", "macro_info", "namelist_item",
  "priority", "segment", "specification", "static_link", "type",
  "use_location", "variable_parameter", "virtuality", "vtable_elem_location",
  "allocated", "associated", "data_location", "byte_stride", "entry_pc",
  "use_UTF8", "extension", "ranges", "trampoline", "call_column",
  "call_file", "call_line", "description", "binary_scale", "decimal_scale",
  "small", "decimal_sign", "digit_count", "picture_string", "mutable",
  "threads_scaled", "explicit", "object_pointer", "endianity", "elemental",
  "pure"}

\* artificial_tags: the categories.
DwarfCurrentArtificialTags == <<
  E("basic", <<>>, <<>>, <<>>),
  E("program_element", <<O("name"), O("decl_column"), O("decl_file"), O("decl_line"), O("prototyped"), O("declaration"), O("external"), O("visibility"), O("artificial")>>, <<>>, <<"basic">>),
  E("with_instances", <<>>, <<>>, <<"program_element">>),
  E("type", <<O("byte_size")>>, <<>>, <<"with_instances">>),
  E("type_describing_subprogram", <<O("type")>>, <<>>, <<"type">>),
  E("type_chain", <<O("type")>>, <<>>, <<"type">>),
  E("address_holding_type", <<O("type")>>, <<>>, <<"type_chain">>),
  E("qualified_type", <<>>, <<>>, <<"type_chain">>),
  E("with_named_children", <<>>, <<>>, <<"basic">>),
  E("with_static_location", <<>>, <<>>, <<"basic">>),
  E("with_dynamic_location", <<>>, <<>>, <<"with_type_describing_layout">>),
  E("with_type_describing_layout", <<O("type")>>, <<>>, <<"program_element">>),
  E("with_data_members", <<>>, <<"member">>, <<"type">>)>>

\* member_types, the abbreviation the table uses.
DwarfCurrentMemberTypes == <<"class_type", "typedef", "structure_type", "enumeration_type", "union_type">>

\* tags: the kinds, in table order.
DwarfCurrentTags == <<
  E("array_type", <<>>, <<"subrange_type">>, <<"type_chain">>),
  E("class_type", <<>>, <<"member", "access_declaration">> \o DwarfCurrentMemberTypes, <<"with_data_members", "with_named_children">>),
  E("entry_point", <<>>, <<>>, <<"basic">>),
  E("enumeration_type", <<O("type")>>, <<"enumerator">>, <<"type", "with_named_children">>),
  E("formal_parameter", <<O("location"), O("is_optional"), O("variable_parameter"), O("const_value")>>, <<>>, <<"program_element", "with_dynamic_location">>),
  E("imported_declaration", <<>>, <<>>, <<"basic">>),
  E("label", <<>>, <<>>, <<"basic">>),
  E("lexical_block", <<O("low_pc"), O("high_pc"), O("ranges")>>, <<"variable">>, <<"with_static_location">>),
  E("member", <<O("data_member_location"), O("bit_size"), O("bit_offset"), O("data_bit_offset")>>, <<>>, <<"program_element", "with_dynamic_location">>),
  E("pointer_type", <<O("pure"), O("address_class")>>, <<>>, <<"address_holding_type">>),
  E("reference_type", <<O("address_class")>>, <<>>, <<"address_holding_type">>),
  E("rvalue_reference_type", <<O("address_class")>>, <<>>, <<"address_holding_type">>),
  E("compile_unit", <<M("language"), O("comp_dir"), O("producer"), O("low_pc"), O("high_pc"), O("ranges"), O("name"), O("calling_convention")>>, <<"subprogram", "variable", "base_type", "pointer_type", "reference_type">> \o DwarfCurrentMemberTypes, <<"with_named_children", "with_static_location">>),
  E("string_type", <<O("bit_size"), O("string_length")>>, <<>>, <<"type">>),
  E("structure_type", <<>>, <<"member", "access_declaration", "inheritance">> \o DwarfCurrentMemberTypes, <<"with_data_members", "with_named_children">>),
  E("subroutine_type", <<O("calling_convention"), O("pure"), O("address_class")>>, <<"formal_parameter", "unspecified_parameters">>, <<"type_describing_subprogram">>),
  E("typedef", <<>>, <<>>, <<"type_chain">>),
  E("union_type", <<>>, <<"member">>, <<"with_data_members", "with_named_children">>),
  E("unspecified_parameters", <<>>, <<>>, <<"program_element">>),
  E("variant", <<>>, <<>>, <<"basic">>),
  E("common_block", <<>>, <<>>, <<"basic">>),
  E("common_inclusion", <<>>, <<>>, <<"basic">>),
  E("inheritance", <<O("data_member_location")>>, <<>>, <<"basic", "with_dynamic_location">>),
  E("inlined_subroutine", <<O("high_pc"), O("low_pc"), O("ranges")>>, <<>>, <<"with_static_location">>),
  E("module", <<>>, <<>>, <<"with_named_children">>),
  E("ptr_to_member_type", <<>>, <<>>, <<"type">>),
  E("set_type", <<>>, <<>>, <<"type">>),
  E("subrange_type", <<O("upper_bound"), O("lower_bound"), O("count"), O("type")>>, <<>>, <<"type">>),
  E("with_stmt", <<>>, <<>>, <<"basic">>),
  E("access_declaration", <<>>, <<>>, <<"basic">>),
  E("base_type", <<M("encoding"), O("bit_size"), O("bit_offset"), O("data_bit_offset")>>, <<>>, <<"type">>),
  E("catch_block", <<>>, <<>>, <<"basic">>),
  E("const_type", <<>>, <<>>, <<"qualified_type">>),
  E("constant", <<>>, <<>>, <<"program_element">>),
  E("enumerator", <<O("const_value")>>, <<>>, <<"program_element">>),
  E("file_type", <<>>, <<>>, <<"type">>),
  E("friend", <<>>, <<>>, <<"basic">>),
  E("namelist", <<>>, <<>>, <<"basic">>),
  E("namelist_item", <<>>, <<>>, <<"basic">>),
  E("packed_type", <<>>, <<>>, <<"qualified_type">>),
  E("subprogram", <<O("calling_convention"), O("low_pc"), O("high_pc"), O("frame_base"), O("pure")>>, <<"formal_parameter", "unspecified_parameters", "variable", "lexical_block">>, <<"type_describing_subprogram", "with_static_location", "with_named_children">>),
  E("template_type_parameter", <<>>, <<>>, <<"basic">>),
  E("template_value_parameter", <<>>, <<>>, <<"basic">>),
  E("thrown_type", <<>>, <<>>, <<"type_chain">>),
  E("try_block", <<>>, <<>>, <<"basic">>),
  E("variant_part", <<>>, <<>>, <<"basic">>),
  E("variable", <<O("location")>>, <<>>, <<"program_element", "with_static_location", "with_dynamic_location">>),
  E("volatile_type", <<>>, <<>>, <<"qualified_type">>),
  E("dwarf_procedure", <<>>, <<>>, <<"basic">>),
  E("restrict_type", <<>>, <<>>, <<"qualified_type">>),
  E("interface_type", <<>>, <<"member">>, <<"type">>),
  E("namespace", <<>>, <<>>, <<"program_element", "with_named_children">>),
  E("imported_module", <<>>, <<>>, <<"basic">>),
  E("unspecified_type", <<>>, <<>>, <<"type">>),
  E("partial_unit", <<>>, <<>>, <<"basic">>),
  E("imported_unit", <<>>, <<>>, <<"basic">>),
  E("condition", <<>>, <<>>, <<"basic">>),
  E("shared_type", <<>>, <<>>, <<"type">>)>>

DwarfCurrentSchema == [tags |-> DwarfCurrentTags, art |-> DwarfCurrentArtificialTags]
=============================================================================
